---- MODULE Spec2Model ----
(***************************************************************************)
(* Model of the two-pass vertical reframing run of                         *)
(* shorts_maker/smart_reframe_vertical.py: Pass 1 (detect_xcenters, the    *)
(* sticky target tracker), ema_smooth + clip, the crop geometry, the       *)
(* writer fallbacks, Pass 2 (crop, canvas, side-by-side, CSV) and          *)
(* mux_audio; of a run of gather_wisdom/send-mail.py (MailSpec); of a run   *)
(* of archive-youtube-live-videos.py (ArchSpec); and of a call of          *)
(* pick_video_for_service of shorts_maker/make_shorts_from_wisdom.py       *)
(* (PickSpec).                                                             *)
(*                                                                         *)
(* Numbers.  Horizontal positions are Python floats in the code.  They are *)
(* kept here as exact integers in units of 1/XS pixel: every position the  *)
(* code computes from the inputs drawn below is a dyadic rational whose    *)
(* denominator divides XS, so neither float64 nor the float32 store of     *)
(* ema_smooth rounds (F32 below computes that store and is exact on these  *)
(* values).  target_area is an exact rational [n, d] (d a power of ten),   *)
(* because of the 0.9/0.1 blend.                                           *)
(***************************************************************************)
EXTENDS Integers, Sequences, FiniteSets, TLC

VARIABLES
    pc,                  \* position of main()
    args,                \* parsed command line (args.debug_sbs is reassigned at line 251)
    src,                 \* [W, H] of the input video
    frame_idx,           \* frame counter of the running pass
    faces,               \* detector output of the latest Pass 1 frame
    detected,            \* TRUE iff the latest Pass 1 frame was a detection frame
    target_xc,           \* tracker: current_x            (1/XS px)
    target_area,         \* tracker: current_area         ([n, d])
    frames_since_switch, \* tracker: detection steps since the last switch
    xcenters_raw,        \* raw trajectory                (1/XS px)
    x_smooth,            \* smoothed, clipped trajectory  (1/XS px)
    crop_w,              \* crop width in px
    writer,              \* fourcc of the open main writer, or "none"
    sbs_writer,          \* fourcc of the open side-by-side writer, or "none"
    csv_writer,          \* TRUE iff the CSV writer exists
    tries,               \* fourccs left to try in the running fallback loop
    inner,               \* letterbox placement [w, h, x0, y0]
    files,               \* what the run has put at each path
    out_frames,          \* frames written to the main writer: [x1, x2]
    sbs_frames,          \* frames written to the side-by-side writer
    csv_rows,            \* rows written to the CSV
    log,                 \* what the run did and printed, in order
    exit,                \* "running", "ok" (returned normally), "fatal"
    env,                 \* "clean": every external operation succeeds;
                         \* "faulty": opens, writes and subprocesses may fail
    \* gather_wisdom/send-mail.py
    mail_pc,             \* position of the script; "idle": it is not run
    mail_debug,          \* args.debug
    retry,               \* send_email's parameter retry, of the running call
    override_to,         \* send_email's parameter override_to (<<>> is None)
    to,                  \* send_email's local to
    token_file,          \* the saved OAuth token: "absent", "valid", "expired"
    tmp_files,           \* the wisdom files present in tmp/
    message,             \* the message built: [to, files], or "None"
    sent,                \* the messages the Gmail API accepted, in order
    mail_log,            \* what the script logged, in order
    \* archive-youtube-live-videos.py
    arch_pc,             \* position of the script; "idle": it is not run
    dry_run,             \* args.dry_run
    channel,             \* the uploads of the channel, as YouTube holds them
    videos,              \* get_video_details' result
    to_archive,          \* the videos selected
    arch_i,              \* position of the loop of line 193 in to_archive
    update_calls,        \* ids given to videos().update, in order
    arch_log,            \* what the script logged, in order
    \* shorts_maker/make_shorts_from_wisdom.py: pick_video_for_service
    pick_pc,             \* "idle", "call", "returned"
    base_dir,            \* the names of the files in base_dir
    service,             \* the parameter service
    picked               \* the name returned; <<>> is None

vars == <<pc, args, src, frame_idx, faces, detected, target_xc, target_area,
          frames_since_switch, xcenters_raw, x_smooth, crop_w, writer,
          sbs_writer, csv_writer, tries, inner, files, out_frames, sbs_frames,
          csv_rows, log, exit, env, mail_pc, mail_debug, retry, override_to,
          to, token_file, tmp_files, message, sent, mail_log, arch_pc,
          dry_run, channel, videos, to_archive, arch_i, update_calls,
          arch_log, pick_pc, base_dir, service, picked>>

\* the state of send-mail.py
mail == <<mail_pc, mail_debug, retry, override_to, to, token_file, tmp_files,
          message, sent, mail_log>>

\* the state of archive-youtube-live-videos.py
arch == <<arch_pc, dry_run, channel, videos, to_archive, arch_i, update_calls,
          arch_log>>

\* the state of a call of pick_video_for_service
pick == <<pick_pc, base_dir, service, picked>>

\* the state of the repository's other programs, which a reframing run
\* does not touch
rest == <<mail, arch, pick>>

-----------------------------------------------------------------------------
(* Bounds of the model *)

\* frames the decoder yields in Pass 1, at most
MaxFrames == 3

\* videos on the channel, at most
MaxVideos == 2

\* files in base_dir, at most
MaxFiles == 3

-----------------------------------------------------------------------------
(* Program constants *)

TARGET_W == 1080
TARGET_H == 1920
MIN_CROP_W == 64
FSS_INIT == 1000000000
\* denominator of the --smooth values drawn (alpha = smooth/ALPHA_DEN)
ALPHA_DEN == 2 ^ 2
\* positions are kept in units of 1/XS pixel
XS == 2 * ALPHA_DEN ^ (MaxFrames + 1)

\* fourcc_try with the first two encoders exchanged
fourcc_try_h264_first == <<"H264", "avc1", "mp4v">>

fourcc_try == <<"avc1", "H264", "mp4v">>

-----------------------------------------------------------------------------
(* Arithmetic *)

Abs(x) == IF x < 0 THEN -x ELSE x
Min(a, b) == IF a <= b THEN a ELSE b
Max(a, b) == IF a >= b THEN a ELSE b
Sign(x) == IF x > 0 THEN 1 ELSE IF x < 0 THEN -1 ELSE 0

\* Python round() of the rational n/d (d > 0): nearest integer, ties to even
PyRound(n, d) ==
    LET q == n \div d
        r == n % d
    IN  IF 2 * r < d THEN q
        ELSE IF 2 * r > d THEN q + 1
        ELSE IF q % 2 = 0 THEN q ELSE q + 1

RECURSIVE Pow2Below(_, _)
\* largest p * 2^k (k >= 0) that is <= v, for 0 < p <= v
Pow2Below(p, v) == IF 2 * p > v THEN p ELSE Pow2Below(2 * p, v)

\* The store of the value v/XS into a float32 array: 24 significant bits,
\* round to nearest, ties to even.
F32(v) ==
    IF v = 0 THEN 0
    ELSE LET m == Abs(v)
             top == Pow2Below(1, m)
             ulp == top \div 8388608
         IN  IF ulp <= 1 THEN v
             ELSE Sign(v) * ulp * PyRound(m, ulp)

\* np.clip(v, lo, hi) = minimum(maximum(v, lo), hi)
NpClip(v, lo, hi) == Min(Max(v, lo), hi)

-----------------------------------------------------------------------------
(* Pass 1: detect_xcenters *)

\* area = float(w) * float(h), xc = x + w / 2.0   (y is not used)
BoxArea(f) == f.w * f.h
BoxXc(f) == f.x * XS + (f.w * XS) \div 2

\* score = (area - dist) if prefer_near_prev else area      (in 1/XS)
Score(f, txc, prefer_near_prev) ==
    IF prefer_near_prev
    THEN BoxArea(f) * XS - Abs(BoxXc(f) - txc)
    ELSE BoxArea(f) * XS

\* candidates.append((score, xc, area)) for each face, in detector order
Candidates(fs, txc, prefer_near_prev) ==
    [i \in 1..Len(fs) |->
        [score |-> Score(fs[i], txc, prefer_near_prev),
         xc |-> BoxXc(fs[i]),
         area |-> BoxArea(fs[i])]]

RECURSIVE InsertDescLastWins(_, _)
\* InsertDesc that puts c before the elements of equal score
InsertDescLastWins(c, s) ==
    IF s = <<>> THEN <<c>>
    ELSE IF Head(s).score > c.score
         THEN <<Head(s)>> \o InsertDescLastWins(c, Tail(s))
    ELSE <<c>> \o s

\* position of c in a list sorted by descending score when c goes after
\* every element whose score is >= its own (list.sort is stable, and
\* reverse=True keeps the original order of equal keys)
RECURSIVE InsertDesc(_, _)
InsertDesc(c, s) ==
    IF s = <<>> THEN <<c>>
    ELSE IF Head(s).score >= c.score THEN <<Head(s)>> \o InsertDesc(c, Tail(s))
    ELSE <<c>> \o s

RECURSIVE SortDesc(_)
\* candidates.sort(reverse=True, key=lambda t: t[0])
SortDesc(s) ==
    IF s = <<>> THEN <<>>
    ELSE InsertDesc(s[Len(s)], SortDesc(SubSeq(s, 1, Len(s) - 1)))

\* candidates[0] after the sort
Best(fs, txc, prefer_near_prev) ==
    Head(SortDesc(Candidates(fs, txc, prefer_near_prev)))

RECURSIVE NormArea(_)
\* the rational a.n / a.d in lowest power-of-ten terms
NormArea(a) ==
    IF a.d > 1 /\ a.n % 10 = 0 THEN NormArea([n |-> a.n \div 10, d |-> a.d \div 10])
    ELSE a

\* best_area >= switch_area_ratio * target_area
AreaRatioClause(best_area, ratio, tarea) ==
    best_area * ratio.d * tarea.d >= ratio.n * tarea.n

\* abs(best_xc - target_xc) < (W * 0.15)
NearClause(best_xc, txc, W) == 20 * Abs(best_xc - txc) < 3 * W * XS

\* best_area > target_area * 1.1
MildAreaClause(best_area, tarea) == 10 * best_area * tarea.d > 11 * tarea.n

\* ShouldSwitch without the test of frames_since_switch
ShouldSwitchNoGate(best, txc, tarea, fss, a, W) ==
    IF AreaRatioClause(best.area, a.switch_area_ratio, tarea)
    THEN TRUE
    ELSE a.prefer_near_prev /\ NearClause(best.xc, txc, W)
           /\ MildAreaClause(best.area, tarea)

\* ShouldSwitch with the area-ratio clause only
ShouldSwitchAreaOnly(best, txc, tarea, fss, a, W) ==
    IF fss >= a.stick_frames
    THEN AreaRatioClause(best.area, a.switch_area_ratio, tarea)
    ELSE FALSE

\* lines 122-129
ShouldSwitch(best, txc, tarea, fss, a, W) ==
    IF fss >= a.stick_frames
    THEN IF AreaRatioClause(best.area, a.switch_area_ratio, tarea)
         THEN TRUE
         ELSE a.prefer_near_prev /\ NearClause(best.xc, txc, W)
                /\ MildAreaClause(best.area, tarea)
    ELSE FALSE

\* StickDelta without the max_px_jump limit
StickDeltaNoLimit(best_xc, txc, max_px_jump) == best_xc - txc

\* StickDelta that always moves by max_px_jump towards the candidate
StickDeltaFullJump(best_xc, txc, max_px_jump) ==
    Sign(best_xc - txc) * max_px_jump * XS

\* lines 136-138: delta, limited to max_px_jump
StickDelta(best_xc, txc, max_px_jump) ==
    LET delta == best_xc - txc
    IN  IF Abs(delta) > max_px_jump * XS
        THEN Sign(delta) * max_px_jump * XS
        ELSE delta

\* BlendArea without the floor of 1 on the area of the best candidate
BlendAreaNoFloor(tarea, best_area) ==
    NormArea([n |-> 9 * tarea.n + best_area * tarea.d, d |-> 10 * tarea.d])

\* BlendArea that keeps 0.9 of the area and adds nothing for the candidate
BlendAreaDecays(tarea, best_area) ==
    NormArea([n |-> 9 * tarea.n, d |-> 10 * tarea.d])

\* line 140: 0.9 * target_area + 0.1 * max(1.0, best_area)
BlendArea(tarea, best_area) ==
    NormArea([n |-> 9 * tarea.n + Max(1, best_area) * tarea.d, d |-> 10 * tarea.d])

\* TrackStep in which a step without candidates lets the target drift left
TrackStepDrifts(fs, txc, tarea, fss, a, W) ==
    IF Len(fs) > 0
    THEN LET best == Best(fs, txc, a.prefer_near_prev)
         IN  IF ShouldSwitch(best, txc, tarea, fss, a, W)
             THEN [xc |-> best.xc,
                   area |-> [n |-> Max(1, best.area), d |-> 1],
                   fss |-> 0]
             ELSE [xc |-> txc + StickDelta(best.xc, txc, a.max_px_jump),
                   area |-> BlendArea(tarea, best.area),
                   fss |-> fss + 1]
    ELSE [xc |-> Max(0, txc - XS), area |-> tarea, fss |-> fss]

\* TrackStep in which a switch moves by at most max_px_jump, as a stick does
TrackStepLimitedSwitch(fs, txc, tarea, fss, a, W) ==
    IF Len(fs) > 0
    THEN LET best == Best(fs, txc, a.prefer_near_prev)
         IN  IF ShouldSwitch(best, txc, tarea, fss, a, W)
             THEN [xc |-> txc + StickDelta(best.xc, txc, a.max_px_jump),
                   area |-> [n |-> Max(1, best.area), d |-> 1],
                   fss |-> 0]
             ELSE [xc |-> txc + StickDelta(best.xc, txc, a.max_px_jump),
                   area |-> BlendArea(tarea, best.area),
                   fss |-> fss + 1]
    ELSE [xc |-> txc, area |-> tarea, fss |-> fss]

\* lines 109-141: the tracker update of one detection step with faces fs
TrackStep(fs, txc, tarea, fss, a, W) ==
    IF Len(fs) > 0
    THEN LET best == Best(fs, txc, a.prefer_near_prev)
         IN  IF ShouldSwitch(best, txc, tarea, fss, a, W)
             THEN [xc |-> best.xc,
                   area |-> [n |-> Max(1, best.area), d |-> 1],
                   fss |-> 0]
             ELSE [xc |-> txc + StickDelta(best.xc, txc, a.max_px_jump),
                   area |-> BlendArea(tarea, best.area),
                   fss |-> fss + 1]
    ELSE [xc |-> txc, area |-> tarea, fss |-> fss]

\* IsDetectFrame that takes every frame for a detection frame
IsDetectFrameAlways(stride, idx) == TRUE

\* line 103: stride <= 1 or frame_idx % stride == 0
IsDetectFrame(stride, idx) == stride <= 1 \/ idx % stride = 0


-----------------------------------------------------------------------------
(* ema_smooth, the clip and the crop geometry *)

RECURSIVE EmaFromSwapped(_, _, _, _)
\* EmaFrom with the two weights exchanged
EmaFromSwapped(out, data, i, smooth) ==
    IF i > Len(data) THEN out
    ELSE EmaFromSwapped(
            Append(out,
                F32(((ALPHA_DEN - smooth) * out[i - 1] + smooth * data[i])
                        \div ALPHA_DEN)),
            data, i + 1, smooth)

RECURSIVE EmaFrom(_, _, _, _)
\* lines 156-157: out[i] = alpha * out[i-1] + (1 - alpha) * data[i], stored
\* as float32.  alpha = smooth / ALPHA_DEN; the division is exact on the
\* positions of this model.
EmaFrom(out, data, i, smooth) ==
    IF i > Len(data) THEN out
    ELSE EmaFrom(
            Append(out,
                F32((smooth * out[i - 1] + (ALPHA_DEN - smooth) * data[i])
                        \div ALPHA_DEN)),
            data, i + 1, smooth)

\* lines 151-158
ema_smooth(data, smooth) ==
    IF data = <<>> THEN <<>>
    ELSE EmaFrom(<<F32(data[1])>>, data, 2, smooth)

\* line 199: np.clip(x_smooth, 0, W - 1)
ClipTrajectory(xs, W) == [i \in 1..Len(xs) |-> NpClip(xs[i], 0, (W - 1) * XS)]

\* lines 202-203: int(round(H * 9 / 16)), then max(64, min(crop_w, W))
CropWidth(W, H) == Max(MIN_CROP_W, Min(PyRound(H * 9, 16), W))

\* x_center_at_idx that wraps an index past the end round to the start
x_center_at_idx_wraps(xs, i) == xs[(i % Len(xs)) + 1]

\* lines 206-208: the smoothed centre of frame i (0-based), index clamped
x_center_at_idx(xs, i) == xs[Max(0, Min(Len(xs) - 1, i)) + 1]

\* x1_at_idx that places the left edge at the smoothed centre itself
x1_at_idx_uncentered(xs, i, W, cw) ==
    Max(0, Min((W - cw) * XS, x_center_at_idx(xs, i)))

\* lines 210-212: the left edge, max(0.0, min(W - crop_w, xc - half))
x1_at_idx(xs, i, W, cw) ==
    Max(0, Min((W - cw) * XS, x_center_at_idx(xs, i) - (cw * XS) \div 2))

\* lines 281-286: the integer crop columns [x1, x2) of frame i
CropColumns(xs, i, W, cw) ==
    LET r1 == PyRound(x1_at_idx(xs, i, W, cw), XS)
        r2 == r1 + cw
        c1 == Max(0, Min(r1, W - 1))
        c2 == Max(1, Min(r2, W))
    IN  [left |-> x1_at_idx(xs, i, W, cw),
         x1 |-> c1,
         x2 |-> IF c2 <= c1 THEN Min(W, c1 + 1) ELSE c2]

\* Letterbox that uses the requested factor as it is
LetterboxUnclamped(a) ==
    LET lb == a.letterbox
        inner_w == PyRound(TARGET_W * lb, 100)
        inner_h == PyRound(TARGET_H * lb, 100)
    IN  [lb |-> lb, w |-> inner_w, h |-> inner_h,
         x0 |-> (TARGET_W - inner_w) \div 2,
         y0 |-> CASE a.letterbox_align = "top" -> 0
                  [] a.letterbox_align = "bottom" -> TARGET_H - inner_h
                  [] OTHER -> (TARGET_H - inner_h) \div 2]

\* Letterbox with the placements of "top" and "bottom" exchanged
LetterboxFlipped(a) ==
    LET lb == Max(50, Min(100, a.letterbox))
        inner_w == PyRound(TARGET_W * lb, 100)
        inner_h == PyRound(TARGET_H * lb, 100)
    IN  [lb |-> lb, w |-> inner_w, h |-> inner_h,
         x0 |-> (TARGET_W - inner_w) \div 2,
         y0 |-> CASE a.letterbox_align = "top" -> TARGET_H - inner_h
                  [] a.letterbox_align = "bottom" -> 0
                  [] OTHER -> (TARGET_H - inner_h) \div 2]

\* Letterbox that puts the rectangle of "bottom" one rectangle height down
LetterboxBottomLow(a) ==
    LET lb == Max(50, Min(100, a.letterbox))
        inner_w == PyRound(TARGET_W * lb, 100)
        inner_h == PyRound(TARGET_H * lb, 100)
    IN  [lb |-> lb, w |-> inner_w, h |-> inner_h,
         x0 |-> (TARGET_W - inner_w) \div 2,
         y0 |-> CASE a.letterbox_align = "top" -> 0
                  [] a.letterbox_align = "bottom" -> inner_h
                  [] OTHER -> (TARGET_H - inner_h) \div 2]

\* lines 262-271: letterbox factor (in hundredths) and placement
Letterbox(a) ==
    LET lb == Max(50, Min(100, a.letterbox))
        inner_w == PyRound(TARGET_W * lb, 100)
        inner_h == PyRound(TARGET_H * lb, 100)
    IN  [lb |-> lb, w |-> inner_w, h |-> inner_h,
         x0 |-> (TARGET_W - inner_w) \div 2,
         y0 |-> CASE a.letterbox_align = "top" -> 0
                  [] a.letterbox_align = "bottom" -> TARGET_H - inner_h
                  [] OTHER -> (TARGET_H - inner_h) \div 2]

\* f"{v:.3f}" of the position v/XS (v >= 0), as a count of thousandths
Fmt3(v) == (v \div XS) * 1000 + PyRound((v % XS) * 1000, XS)

\* CsvRow that numbers the frames from one
CsvRowOneBased(i, raw, xs, x1) ==
    [frame |-> i + 1,
     x_raw |-> IF i < Len(raw) THEN Fmt3(raw[i + 1]) ELSE -1,
     x_smooth |-> IF i < Len(xs) THEN Fmt3(xs[i + 1]) ELSE -1,
     x1_left |-> x1 * 1000]

\* lines 319-324: the CSV row of frame i
CsvRow(i, raw, xs, x1) ==
    [frame |-> i,
     x_raw |-> IF i < Len(raw) THEN Fmt3(raw[i + 1]) ELSE -1,
     x_smooth |-> IF i < Len(xs) THEN Fmt3(xs[i + 1]) ELSE -1,
     x1_left |-> x1 * 1000]


-----------------------------------------------------------------------------
(* Inputs *)

\* detector boxes (x, w, h); y is never read
bA == [x |-> 250, w |-> 100, h |-> 100]
bB == [x |-> 1075, w |-> 250, h |-> 100]
bC == [x |-> 950, w |-> 100, h |-> 100]
bD == [x |-> 300, w |-> 110, h |-> 110]
bG == [x |-> 270, w |-> 100, h |-> 100]
bH == [x |-> 870, w |-> 100, h |-> 100]
bE == [x |-> 10, w |-> 24, h |-> 24]
bF == [x |-> 20, w |-> 25, h |-> 24]

bR == [x |-> 1800, w |-> 100, h |-> 100]
\* a box of no width: its area is 0
bZ == [x |-> 50, w |-> 0, h |-> 24]

\* the input videos: size, and the candidate lists a frame of it may yield.
\* A tall video (the 9:16 window is as wide as the frame), a video narrower
\* than the minimum crop width, and a one-pixel video.
TallSource == [W |-> 100, H |-> 400, shows |-> {<<>>, <<bE>>, <<bF>>, <<bZ>>}]
TinySource == [W |-> 48, H |-> 64, shows |-> {<<>>, <<bE>>}]
DotSource == [W |-> 1, H |-> 1, shows |-> {<<>>}]
SmallSources == {TallSource, TinySource, DotSource}

\* a 1920x1080 video with several faces, to exercise the tracker
BusySource ==
    [W |-> 1920, H |-> 1080,
     shows |-> {<<>>, <<bA>>, <<bB>>, <<bC>>, <<bD>>, <<bG>>,
                <<bA, bG>>, <<bG, bA>>, <<bC, bH>>, <<bH, bC>>}]

\* a 1920x1080 video with one face at a time: far left, middle or far right
PlainSource ==
    [W |-> 1920, H |-> 1080, shows |-> {<<>>, <<bA>>, <<bC>>, <<bR>>}]

\* a 1920x1080 video that shows one of two faces in every frame, for the
\* runs whose external operations may fail
TwoFaceSource ==
    [W |-> 1920, H |-> 1080, shows |-> {<<bA>>, <<bC>>}]

\* the defaults of parse_args, with the values this model can draw
DefaultArgs ==
    [stride |-> 1, smooth |-> 3, stick_frames |-> 2,
     switch_area_ratio |-> [n |-> 2, d |-> 1], max_px_jump |-> 30,
     prefer_near_prev |-> TRUE, letterbox |-> 100, letterbox_align |-> "top",
     debug_overlay |-> FALSE, debug_sbs |-> FALSE, export_csv |-> FALSE]

\* runs that vary the tracker's knobs
TrackerArgs ==
    { [DefaultArgs EXCEPT !.stride = s, !.stick_frames = k,
                          !.max_px_jump = j, !.prefer_near_prev = p] :
        s \in {1, 2}, k \in {0, 2}, j \in {0, 30}, p \in BOOLEAN }
    \cup { [DefaultArgs EXCEPT !.stick_frames = 1] }
    \* --stick-frames is any int: one above the initial frames_since_switch
    \cup { [DefaultArgs EXCEPT !.stick_frames = FSS_INIT + 1] }

\* runs that vary the smoothing factor (--smooth is any float: 4 and 5 are
\* alpha = 1.0 and 1.25), and runs that vary the letterbox
RenderArgs ==
    { [DefaultArgs EXCEPT !.smooth = al] : al \in {0, 2, 3, 4, 5} }
    \cup
    { [DefaultArgs EXCEPT !.letterbox = lb, !.letterbox_align = al2] :
        lb \in {30, 51, 80, 100, 130}, al2 \in {"top", "center", "bottom"} }

\* runs that vary the debug and CSV outputs
OutputArgs ==
    { [DefaultArgs EXCEPT !.debug_overlay = o, !.debug_sbs = d,
                          !.export_csv = c] :
        o \in BOOLEAN, d \in BOOLEAN, c \in BOOLEAN }

NoFiles ==
    [out |-> "absent", debug |-> "absent", csv |-> "absent",
     audio |-> "absent", muxed |-> "absent"]

Ev(e, a) == [ev |-> e, arg |-> a]

\* what an external operation may answer
MayFail == IF env = "faulty" THEN BOOLEAN ELSE {TRUE}

\* send-mail.py is not run
MailIdle ==
    /\ mail_pc = "idle"
    /\ mail_debug = FALSE
    /\ retry = FALSE
    /\ override_to = <<>>
    /\ to = <<>>
    /\ token_file = "absent"
    /\ tmp_files = {}
    /\ message = "None"
    /\ sent = <<>>
    /\ mail_log = <<>>

\* archive-youtube-live-videos.py is not run
ArchIdle ==
    /\ arch_pc = "idle"
    /\ dry_run = FALSE
    /\ channel = <<>>
    /\ videos = <<>>
    /\ to_archive = <<>>
    /\ arch_i = 0
    /\ update_calls = <<>>
    /\ arch_log = <<>>

\* pick_video_for_service is not called
PickIdle ==
    /\ pick_pc = "idle"
    /\ base_dir = {}
    /\ service = "1st"
    /\ picked = <<>>

Init ==
    /\ MailIdle
    /\ ArchIdle
    /\ PickIdle
    /\ \/ env = "clean" /\ args \in TrackerArgs /\ src \in SmallSources \cup {BusySource}
       \/ env = "clean" /\ args \in RenderArgs /\ src \in SmallSources \cup {PlainSource}
       \/ env = "faulty" /\ args \in OutputArgs /\ src \in {TwoFaceSource, TinySource}
    /\ pc = "start"
    /\ frame_idx = 0
    /\ faces = <<>>
    /\ detected = FALSE
    /\ target_xc = 0
    /\ target_area = [n |-> 1, d |-> 1]
    /\ frames_since_switch = FSS_INIT
    /\ xcenters_raw = <<>>
    /\ x_smooth = <<>>
    /\ crop_w = 0
    /\ writer = "none"
    /\ sbs_writer = "none"
    /\ csv_writer = FALSE
    /\ tries = <<>>
    /\ inner = [lb |-> 0, w |-> 0, h |-> 0, x0 |-> 0, y0 |-> 0]
    /\ files = NoFiles
    /\ out_frames = <<>>
    /\ sbs_frames = <<>>
    /\ csv_rows = <<>>
    /\ log = <<>>
    /\ exit = "running"

-----------------------------------------------------------------------------
(* The run *)

tracker == <<target_xc, target_area, frames_since_switch>>
pass1 == <<faces, detected, tracker, xcenters_raw>>
outputs == <<writer, sbs_writer, csv_writer, files, out_frames, sbs_frames, csv_rows>>

\* raise SystemExit / an uncaught exception after the events evs: the run
\* ends with a failure, nothing else runs
Raise(evs, why) ==
    /\ pc' = "exit"
    /\ exit' = "fatal"
    /\ log' = log \o evs \o <<Ev("fatal", why)>>

Fatal(why) == Raise(<<>>, why)

\* lines 175-183
CheckInput ==
    /\ pc = "start"
    /\ \E exists \in MayFail :
          IF exists
          THEN pc' = "detect" /\ UNCHANGED <<exit, log>>
          ELSE Fatal("Input not found")
    /\ UNCHANGED <<args, src, frame_idx, pass1, x_smooth, crop_w, tries, inner,
                   outputs, env, rest>>

\* DetectOpen in a run that creates the output file before it opens the input
DetectOpenAfterWriter ==
    /\ pc = "detect"
    /\ files' = [files EXCEPT !.out = "open"]
    /\ \E opened \in MayFail :
          IF opened
          THEN /\ pc' = "pass1"
               /\ frame_idx' = 0
               /\ target_xc' = (src.W * XS) \div 2
               /\ target_area' = [n |-> 1, d |-> 1]
               /\ frames_since_switch' = FSS_INIT
               /\ xcenters_raw' = <<>>
               /\ UNCHANGED <<exit, log>>
          ELSE /\ Fatal("Failed to open")
               /\ UNCHANGED <<frame_idx, tracker, xcenters_raw>>
    /\ UNCHANGED <<args, src, faces, detected, x_smooth, crop_w, tries, inner,
                   writer, sbs_writer, csv_writer, out_frames, sbs_frames,
                   csv_rows, env, rest>>

\* lines 77-96: open the capture, load the cascade, start the tracker
DetectOpen ==
    /\ pc = "detect"
    /\ \E opened \in MayFail :
          IF opened
          THEN /\ pc' = "pass1"
               /\ frame_idx' = 0
               /\ target_xc' = (src.W * XS) \div 2
               /\ target_area' = [n |-> 1, d |-> 1]
               /\ frames_since_switch' = FSS_INIT
               /\ xcenters_raw' = <<>>
               /\ UNCHANGED <<exit, log>>
          ELSE /\ Fatal("Failed to open")
               /\ UNCHANGED <<frame_idx, tracker, xcenters_raw>>
    /\ UNCHANGED <<args, src, faces, detected, x_smooth, crop_w, tries, inner,
                   outputs, env, rest>>

\* Pass1Frame that records a position on detection frames only
Pass1FrameDetectOnly ==
    /\ pc = "pass1"
    /\ frame_idx < MaxFrames
    /\ \E fs \in (IF IsDetectFrame(args.stride, frame_idx) THEN src.shows ELSE {<<>>}) :
          LET t == IF IsDetectFrame(args.stride, frame_idx)
                   THEN TrackStep(fs, target_xc, target_area,
                                  frames_since_switch, args, src.W)
                   ELSE [xc |-> target_xc, area |-> target_area,
                         fss |-> frames_since_switch]
          IN  /\ faces' = fs
              /\ detected' = IsDetectFrame(args.stride, frame_idx)
              /\ target_xc' = t.xc
              /\ target_area' = t.area
              /\ frames_since_switch' = t.fss
              /\ xcenters_raw' = IF IsDetectFrame(args.stride, frame_idx)
                                 THEN Append(xcenters_raw, t.xc)
                                 ELSE xcenters_raw
    /\ frame_idx' = frame_idx + 1
    /\ UNCHANGED <<pc, args, src, x_smooth, crop_w, tries, inner, outputs, log,
                   exit, env, rest>>

\* lines 99-144: one decoded frame of Pass 1
Pass1Frame ==
    /\ pc = "pass1"
    /\ frame_idx < MaxFrames
    /\ \E fs \in (IF IsDetectFrame(args.stride, frame_idx) THEN src.shows ELSE {<<>>}) :
          LET t == IF IsDetectFrame(args.stride, frame_idx)
                   THEN TrackStep(fs, target_xc, target_area,
                                  frames_since_switch, args, src.W)
                   ELSE [xc |-> target_xc, area |-> target_area,
                         fss |-> frames_since_switch]
          IN  /\ faces' = fs
              /\ detected' = IsDetectFrame(args.stride, frame_idx)
              /\ target_xc' = t.xc
              /\ target_area' = t.area
              /\ frames_since_switch' = t.fss
              /\ xcenters_raw' = Append(xcenters_raw, t.xc)
    /\ frame_idx' = frame_idx + 1
    /\ UNCHANGED <<pc, args, src, x_smooth, crop_w, tries, inner, outputs, log,
                   exit, env, rest>>

\* lines 99-101, 146-148: cap.read() fails, the loop ends
Pass1End ==
    /\ pc = "pass1"
    /\ pc' = "analyze"
    /\ UNCHANGED <<args, src, frame_idx, pass1, x_smooth, crop_w, tries, inner,
                   outputs, log, exit, env, rest>>

\* Analyze without the zero-frame check
AnalyzeNoCheck ==
    /\ pc = "analyze"
    /\ x_smooth' = ClipTrajectory(ema_smooth(xcenters_raw, args.smooth), src.W)
    /\ crop_w' = CropWidth(src.W, src.H)
    /\ log' = Append(log, Ev("smooth", ""))
    /\ pc' = "reopen"
    /\ UNCHANGED <<exit, args, src, frame_idx, pass1, tries, inner, outputs, env, rest>>

\* lines 195-204: the zero-frame check, the smoother, the clip, the crop width
Analyze ==
    /\ pc = "analyze"
    /\ IF xcenters_raw = <<>> \/ Len(xcenters_raw) = 0
       THEN Fatal("No frames read") /\ UNCHANGED <<x_smooth, crop_w>>
       ELSE /\ x_smooth' = ClipTrajectory(ema_smooth(xcenters_raw, args.smooth), src.W)
            /\ crop_w' = CropWidth(src.W, src.H)
            /\ log' = Append(log, Ev("smooth", ""))
            /\ pc' = "reopen"
            /\ UNCHANGED exit
    /\ UNCHANGED <<args, src, frame_idx, pass1, tries, inner, outputs, env, rest>>

\* lines 216-222
Reopen ==
    /\ pc = "reopen"
    /\ \E opened \in MayFail :
          IF opened
          THEN pc' = "open_writer" /\ tries' = fourcc_try /\ UNCHANGED <<exit, log>>
          ELSE Fatal("Failed to reopen input") /\ UNCHANGED tries
    /\ UNCHANGED <<args, src, frame_idx, pass1, x_smooth, crop_w, inner, outputs, env, rest>>

\* lines 224-231: one turn of the main writer's fallback loop
TryWriter ==
    /\ pc = "open_writer"
    /\ tries # <<>>
    /\ \E opened \in MayFail :
          IF opened
          THEN /\ writer' = Head(tries)
               /\ files' = [files EXCEPT !.out = "open"]
               /\ log' = Append(log, Ev("writer", Head(tries)))
               /\ pc' = "sbs_setup"
               /\ UNCHANGED tries
          ELSE /\ tries' = Tail(tries)
               /\ log' = Append(log, Ev("writer_failed", Head(tries)))
               /\ UNCHANGED <<pc, writer, files>>
    /\ UNCHANGED <<args, src, frame_idx, pass1, x_smooth, crop_w, inner,
                   sbs_writer, csv_writer, out_frames, sbs_frames, csv_rows,
                   exit, env, rest>>

\* lines 232-233: the loop ended with no writer
WriterUnavailable ==
    /\ pc = "open_writer"
    /\ tries = <<>>
    /\ Fatal("Could not open VideoWriter")
    /\ UNCHANGED <<args, src, frame_idx, pass1, x_smooth, crop_w, tries, inner,
                   outputs, env, rest>>

\* lines 236-240
SbsSetup ==
    /\ pc = "sbs_setup"
    /\ IF args.debug_sbs
       THEN pc' = "open_sbs" /\ tries' = fourcc_try
       ELSE pc' = "open_csv" /\ UNCHANGED tries
    /\ UNCHANGED <<args, src, frame_idx, pass1, x_smooth, crop_w, inner, outputs,
                   log, exit, env, rest>>

\* lines 241-248: one turn of the side-by-side writer's fallback loop
TrySbs ==
    /\ pc = "open_sbs"
    /\ tries # <<>>
    /\ \E opened \in MayFail :
          IF opened
          THEN /\ sbs_writer' = Head(tries)
               /\ files' = [files EXCEPT !.debug = "open"]
               /\ log' = Append(log, Ev("sbs_writer", Head(tries)))
               /\ pc' = "open_csv"
               /\ UNCHANGED tries
          ELSE /\ tries' = Tail(tries)
               /\ log' = Append(log, Ev("sbs_writer_failed", Head(tries)))
               /\ UNCHANGED <<pc, sbs_writer, files>>
    /\ UNCHANGED <<args, src, frame_idx, pass1, x_smooth, crop_w, inner, writer,
                   csv_writer, out_frames, sbs_frames, csv_rows, exit, env, rest>>

\* SbsUnavailable that warns but leaves args.debug_sbs set
SbsUnavailableKeepsFlag ==
    /\ pc = "open_sbs"
    /\ tries = <<>>
    /\ log' = Append(log, Ev("warning", "Could not open SxS writer"))
    /\ pc' = "open_csv"
    /\ UNCHANGED <<args, src, frame_idx, pass1, x_smooth, crop_w, tries, inner,
                   outputs, exit, env, rest>>

\* lines 249-251: no side-by-side writer: warn and switch the option off
SbsUnavailable ==
    /\ pc = "open_sbs"
    /\ tries = <<>>
    /\ args' = [args EXCEPT !.debug_sbs = FALSE]
    /\ log' = Append(log, Ev("warning", "Could not open SxS writer"))
    /\ pc' = "open_csv"
    /\ UNCHANGED <<src, frame_idx, pass1, x_smooth, crop_w, tries, inner, outputs,
                   exit, env, rest>>

\* lines 254-259: open() and the header row are not guarded
OpenCsv ==
    /\ pc = "open_csv"
    /\ IF args.export_csv
       THEN \E opened \in MayFail :
               IF opened
               THEN /\ csv_writer' = TRUE
                    /\ files' = [files EXCEPT !.csv = "open"]
                    /\ csv_rows' = <<"header">>
                    /\ pc' = "layout"
                    /\ UNCHANGED <<exit, log>>
               ELSE /\ Raise(<<Ev("io_error", "csv open")>>, "OSError")
                    /\ UNCHANGED <<csv_writer, files, csv_rows>>
       ELSE pc' = "layout" /\ UNCHANGED <<csv_writer, files, csv_rows, exit, log>>
    /\ UNCHANGED <<args, src, frame_idx, pass1, x_smooth, crop_w, tries, inner,
                   writer, sbs_writer, out_frames, sbs_frames, env, rest>>

\* lines 262-273
Layout ==
    /\ pc = "layout"
    /\ inner' = Letterbox(args)
    /\ frame_idx' = 0
    /\ pc' = "pass2"
    /\ UNCHANGED <<args, src, pass1, x_smooth, crop_w, tries, outputs, log, exit, env, rest>>

\* frames the second decode of the input may yield beyond those of Pass 1
ExtraFrames == IF env = "faulty" THEN 1 ELSE 0

\* Pass2Frame that narrows crop_w to the width of the source
Pass2FrameNarrows ==
    /\ pc = "pass2"
    /\ frame_idx < Len(xcenters_raw) + ExtraFrames
    /\ LET c == CropColumns(x_smooth, frame_idx, src.W, crop_w)
       IN  /\ out_frames' = Append(out_frames,
                                [idx |-> frame_idx, left |-> c.left,
                                 x1 |-> c.x1, x2 |-> c.x2,
                                 canvas_w |-> TARGET_W, canvas_h |-> TARGET_H])
           /\ sbs_frames' = IF args.debug_sbs
                            THEN Append(sbs_frames,
                                    [idx |-> frame_idx, to |-> sbs_writer,
                                     overlay |-> args.debug_overlay])
                            ELSE sbs_frames
           /\ IF csv_writer
              THEN \E written \in MayFail :
                      IF written
                      THEN /\ csv_rows' = Append(csv_rows,
                                            CsvRow(frame_idx, xcenters_raw, x_smooth, c.x1))
                           /\ frame_idx' = frame_idx + 1
                           /\ UNCHANGED <<pc, exit, log>>
                      ELSE /\ Raise(<<Ev("io_error", "csv row")>>, "OSError")
                           /\ UNCHANGED <<csv_rows, frame_idx>>
              ELSE /\ frame_idx' = frame_idx + 1
                   /\ UNCHANGED <<csv_rows, pc, exit, log>>
    /\ crop_w' = Min(crop_w, src.W)
    /\ UNCHANGED <<args, src, pass1, x_smooth, tries, inner, writer,
                   sbs_writer, csv_writer, files, env, rest>>

\* lines 275-326: one decoded frame of Pass 2
Pass2Frame ==
    /\ pc = "pass2"
    /\ frame_idx < Len(xcenters_raw) + ExtraFrames
    /\ LET c == CropColumns(x_smooth, frame_idx, src.W, crop_w)
       IN  /\ out_frames' = Append(out_frames,
                                [idx |-> frame_idx, left |-> c.left,
                                 x1 |-> c.x1, x2 |-> c.x2,
                                 canvas_w |-> TARGET_W, canvas_h |-> TARGET_H])
           /\ sbs_frames' = IF args.debug_sbs
                            THEN Append(sbs_frames,
                                    [idx |-> frame_idx, to |-> sbs_writer,
                                     overlay |-> args.debug_overlay])
                            ELSE sbs_frames
           /\ IF csv_writer
              THEN \E written \in MayFail :
                      IF written
                      THEN /\ csv_rows' = Append(csv_rows,
                                            CsvRow(frame_idx, xcenters_raw, x_smooth, c.x1))
                           /\ frame_idx' = frame_idx + 1
                           /\ UNCHANGED <<pc, exit, log>>
                      ELSE /\ Raise(<<Ev("io_error", "csv row")>>, "OSError")
                           /\ UNCHANGED <<csv_rows, frame_idx>>
              ELSE /\ frame_idx' = frame_idx + 1
                   /\ UNCHANGED <<csv_rows, pc, exit, log>>
    /\ UNCHANGED <<args, src, pass1, x_smooth, crop_w, tries, inner, writer,
                   sbs_writer, csv_writer, files, env, rest>>

\* Pass2End that goes on to the mux step with the writers still open
Pass2EndNoRelease ==
    /\ pc = "pass2"
    /\ frame_idx >= Len(xcenters_raw)
    /\ pc' = "extract"
    /\ UNCHANGED <<args, src, frame_idx, pass1, x_smooth, crop_w, tries, inner,
                   outputs, log, exit, env, rest>>

\* lines 275-277, 328-333: the loop ends; release and close everything
Pass2End ==
    /\ pc = "pass2"
    /\ frame_idx >= Len(xcenters_raw)
    /\ files' = [files EXCEPT
                    !.out = "video_only",
                    !.debug = IF sbs_writer # "none" THEN "sbs" ELSE @,
                    !.csv = IF csv_writer THEN "rows" ELSE @]
    /\ log' = Append(log, Ev("released", ""))
    /\ pc' = "extract"
    /\ UNCHANGED <<args, src, frame_idx, pass1, x_smooth, crop_w, tries, inner,
                   writer, sbs_writer, csv_writer, out_frames, sbs_frames,
                   csv_rows, exit, env, rest>>

\* lines 347-350: the except branch of the mux step, then "Done."
MuxFailed(step) ==
    /\ log' = log \o <<Ev("run", step), Ev("exit_nonzero", step),
                        Ev("warning", "Audio mux failed"), Ev("done", "")>>
    /\ pc' = "exit"
    /\ exit' = "ok"

\* ExtractAudio that goes on to the mux step after a failed extract
ExtractAudioThenMux ==
    /\ pc = "extract"
    /\ \E ok \in MayFail :
          IF ok
          THEN /\ files' = [files EXCEPT !.audio = "aac"]
               /\ log' = Append(log, Ev("run", "extract"))
          ELSE /\ \E left \in {"absent", "partial"} :
                     files' = [files EXCEPT !.audio = left]
               /\ log' = log \o <<Ev("run", "extract"),
                                   Ev("exit_nonzero", "extract")>>
    /\ pc' = "mux"
    /\ UNCHANGED <<exit, args, src, frame_idx, pass1, x_smooth, crop_w, tries,
                   inner, writer, sbs_writer, csv_writer, out_frames,
                   sbs_frames, csv_rows, env, rest>>

\* lines 163-164 (from 338-340): the audio-extract subprocess
ExtractAudio ==
    /\ pc = "extract"
    /\ \E ok \in MayFail :
          IF ok
          THEN /\ files' = [files EXCEPT !.audio = "aac"]
               /\ log' = Append(log, Ev("run", "extract"))
               /\ pc' = "mux"
               /\ UNCHANGED exit
          ELSE /\ \E left \in {"absent", "partial"} :
                     files' = [files EXCEPT !.audio = left]
               /\ MuxFailed("extract")
    /\ UNCHANGED <<args, src, frame_idx, pass1, x_smooth, crop_w, tries, inner,
                   writer, sbs_writer, csv_writer, out_frames, sbs_frames,
                   csv_rows, env, rest>>

\* MuxStreams that runs the mux subprocess without check=True: os.replace
\* moves whatever the failed mux left behind over the output
MuxStreamsUnchecked ==
    /\ pc = "mux"
    /\ \E ok \in MayFail :
          /\ files' = [files EXCEPT !.out = IF ok THEN "muxed" ELSE "partial",
                                    !.muxed = "absent", !.audio = "absent"]
          /\ log' = log \o (IF ok THEN <<Ev("run", "mux")>>
                             ELSE <<Ev("run", "mux"), Ev("exit_nonzero", "mux")>>)
                        \o <<Ev("mux_complete", ""), Ev("done", "")>>
          /\ pc' = "exit"
          /\ exit' = "ok"
    /\ UNCHANGED <<args, src, frame_idx, pass1, x_smooth, crop_w, tries, inner,
                   writer, sbs_writer, csv_writer, out_frames, sbs_frames,
                   csv_rows, env, rest>>

\* MuxStreams that leaves the temporary audio file where it is
MuxStreamsKeepsAudio ==
    /\ pc = "mux"
    /\ files' = [files EXCEPT !.out = "muxed", !.muxed = "absent"]
    /\ log' = log \o <<Ev("run", "mux"), Ev("mux_complete", ""), Ev("done", "")>>
    /\ pc' = "exit"
    /\ exit' = "ok"
    /\ UNCHANGED <<args, src, frame_idx, pass1, x_smooth, crop_w, tries, inner,
                   writer, sbs_writer, csv_writer, out_frames, sbs_frames,
                   csv_rows, env, rest>>

\* lines 166-170 and 341-348: the mux subprocess, os.replace, the cleanup.
\* os.replace may raise after a mux that succeeded: the except branch of
\* line 347 prints the warning and both temporary files stay.  An
\* exception of tmp_audio.unlink() is swallowed (lines 344-345): the file
\* stays and the run goes on to "Audio mux complete".
MuxStreams ==
    /\ pc = "mux"
    /\ \E ok \in MayFail, replaced \in MayFail, unlinked \in MayFail :
          IF ok
          THEN /\ files' =
                     IF replaced
                     THEN [files EXCEPT !.out = "muxed", !.muxed = "absent",
                                        !.audio = IF unlinked THEN "absent" ELSE @]
                     ELSE [files EXCEPT !.muxed = "muxed"]
               /\ log' = log \o
                     (IF replaced
                      THEN <<Ev("run", "mux"), Ev("mux_complete", ""),
                             Ev("done", "")>>
                      ELSE <<Ev("run", "mux"), Ev("os_error", "replace"),
                             Ev("warning", "Audio mux failed"), Ev("done", "")>>)
               /\ pc' = "exit"
               /\ exit' = "ok"
          ELSE /\ \E left \in {"absent", "partial"} :
                     files' = [files EXCEPT !.muxed = left]
               /\ MuxFailed("mux")
    /\ UNCHANGED <<args, src, frame_idx, pass1, x_smooth, crop_w, tries, inner,
                   writer, sbs_writer, csv_writer, out_frames, sbs_frames,
                   csv_rows, env, rest>>

Next ==
    \/ CheckInput
    \/ DetectOpen
    \/ Pass1Frame
    \/ Pass1End
    \/ Analyze
    \/ Reopen
    \/ TryWriter
    \/ WriterUnavailable
    \/ SbsSetup
    \/ TrySbs
    \/ SbsUnavailable
    \/ OpenCsv
    \/ Layout
    \/ Pass2Frame
    \/ Pass2End
    \/ ExtractAudio
    \/ MuxStreams

Spec == Init /\ [][Next]_vars


-----------------------------------------------------------------------------
(* gather_wisdom/send-mail.py *)

\* line 149: the recipients of a --debug run
debug_to == <<"william@charlotteag.org">>
\* line 111: the recipients when override_to is not given
default_to == <<"sunday-wisdom@charlotteag.org">>
\* line 116
wisdom_files == <<"1st_service_wisdom.txt", "2nd_service_wisdom.txt">>

\* line 102: create_message_with_attachments returns None for the message
NoMessage == [to |-> <<>>, files |-> <<>>]

\* the state of smart_reframe_vertical.py
reframe == <<pc, args, src, frame_idx, pass1, x_smooth, crop_w, tries, inner,
             outputs, log, exit, env>>

\* smart_reframe_vertical.py is not run
ReframeIdle ==
    /\ pc = "idle"
    /\ args = DefaultArgs
    /\ src = PlainSource
    /\ env = "clean"
    /\ frame_idx = 0
    /\ faces = <<>>
    /\ detected = FALSE
    /\ target_xc = 0
    /\ target_area = [n |-> 1, d |-> 1]
    /\ frames_since_switch = FSS_INIT
    /\ xcenters_raw = <<>>
    /\ x_smooth = <<>>
    /\ crop_w = 0
    /\ writer = "none"
    /\ sbs_writer = "none"
    /\ csv_writer = FALSE
    /\ tries = <<>>
    /\ inner = [lb |-> 0, w |-> 0, h |-> 0, x0 |-> 0, y0 |-> 0]
    /\ files = NoFiles
    /\ out_frames = <<>>
    /\ sbs_frames = <<>>
    /\ csv_rows = <<>>
    /\ log = <<>>
    /\ exit = "running"

\* the script is started: with or without --debug, with any saved token and
\* any of the wisdom files in tmp/
MailInit ==
    /\ ReframeIdle
    /\ ArchIdle
    /\ PickIdle
    /\ mail_pc = "main"
    /\ mail_debug \in BOOLEAN
    /\ token_file \in {"absent", "valid", "expired"}
    /\ tmp_files \in SUBSET {wisdom_files[i] : i \in 1..Len(wisdom_files)}
    /\ retry = FALSE
    /\ override_to = <<>>
    /\ to = <<>>
    /\ message = NoMessage
    /\ sent = <<>>
    /\ mail_log = <<>>

\* SendEmailExcept that gives up at the first failure
SendEmailExceptNoRetry(evs) ==
    /\ mail_log' = mail_log \o evs \o
           <<Ev("exception", "Failed to send email"),
             Ev("error", "Retry failed. Giving up.")>>
    /\ mail_pc' = "done"
    /\ UNCHANGED <<retry, override_to>>

\* lines 133-140: the except branch of send_email after the events evs: the
\* first call calls send_email(retry=True), with no override_to; the retry
\* gives up
SendEmailExcept(evs) ==
    IF ~retry
    THEN /\ mail_log' = mail_log \o evs \o
                <<Ev("exception", "Failed to send email"), Ev("info", "Retrying")>>
         /\ retry' = TRUE
         /\ override_to' = <<>>
         /\ mail_pc' = "auth"
    ELSE /\ mail_log' = mail_log \o evs \o
                <<Ev("exception", "Failed to send email"),
                  Ev("error", "Retry failed. Giving up.")>>
         /\ mail_pc' = "done"
         /\ UNCHANGED <<retry, override_to>>

\* lines 142-151: parse the command line and call send_email
MailMain ==
    /\ mail_pc = "main"
    /\ retry' = FALSE
    /\ override_to' = IF mail_debug THEN debug_to ELSE <<>>
    /\ mail_log' = IF mail_debug
                   THEN Append(mail_log, Ev("info", "Debug mode enabled"))
                   ELSE mail_log
    /\ mail_pc' = "auth"
    /\ UNCHANGED <<mail_debug, to, token_file, tmp_files, message, sent, reframe, arch, pick>>

\* lines 109-111 with authenticate_gmail (45-73): a valid token is used; an
\* expired one is refreshed (the file is not rewritten) or, the refresh
\* failing, deleted; with no usable token the OAuth flow runs and saves a
\* new one, or raises.  Then the recipients are chosen.
AuthenticateGmail ==
    /\ mail_pc = "auth"
    /\ \E refreshed \in BOOLEAN, granted \in BOOLEAN :
          LET usable == \/ token_file = "valid"
                        \/ token_file = "expired" /\ refreshed
          IN  /\ token_file' = IF usable THEN token_file
                               ELSE IF granted THEN "valid" ELSE "absent"
              /\ IF usable \/ granted
                 THEN /\ to' = IF override_to # <<>> THEN override_to ELSE default_to
                      /\ mail_pc' = "compose"
                      /\ UNCHANGED <<retry, override_to, mail_log>>
                 ELSE /\ SendEmailExcept(<<>>)
                      /\ UNCHANGED to
    /\ UNCHANGED <<mail_debug, tmp_files, message, sent, reframe, arch, pick>>

InTmp(f) == f \in tmp_files

\* lines 112-120 with create_message_with_attachments (76-105), and lines
\* 131-132 when no file was attached
CreateMessage ==
    /\ mail_pc = "compose"
    /\ LET attached_files == SelectSeq(wisdom_files, InTmp)
       IN  IF attached_files = <<>>
           THEN /\ message' = NoMessage
                /\ mail_log' = mail_log \o
                      <<Ev("warning", "No wisdom files found"),
                        Ev("info", "Email not sent")>>
                /\ mail_pc' = "done"
           ELSE /\ message' = [to |-> to, files |-> attached_files]
                /\ mail_pc' = "send"
                /\ UNCHANGED mail_log
    /\ UNCHANGED <<mail_debug, retry, override_to, to, token_file, tmp_files,
                   sent, reframe, arch, pick>>

\* lines 122-124: the Gmail API call
SendMessage ==
    /\ mail_pc = "send"
    /\ \E ok \in BOOLEAN :
          IF ok
          THEN /\ sent' = Append(sent, message)
               /\ mail_log' = Append(mail_log, Ev("info", "Email sent"))
               /\ mail_pc' = "cleanup"
               /\ UNCHANGED <<retry, override_to>>
          ELSE /\ SendEmailExcept(<<>>)
               /\ UNCHANGED sent
    /\ UNCHANGED <<mail_debug, to, token_file, tmp_files, message, reframe, arch, pick>>

\* lines 125-130: remove the attached files; a failing os.remove is logged
\* and the file stays
RemoveFiles ==
    /\ mail_pc = "cleanup"
    /\ \E removed \in SUBSET {message.files[i] : i \in 1..Len(message.files)} :
          /\ tmp_files' = tmp_files \ removed
          /\ mail_log' = Append(mail_log, Ev("info", "Removed"))
    /\ mail_pc' = "done"
    /\ UNCHANGED <<mail_debug, retry, override_to, to, token_file, message,
                   sent, reframe, arch, pick>>

MailNext ==
    \/ MailMain
    \/ AuthenticateGmail
    \/ CreateMessage
    \/ SendMessage
    \/ RemoveFiles

MailSpec == MailInit /\ [][MailNext]_vars

\* send-mail.py when every call it makes returns: the script is
\* single-threaded and goes on to its next statement
MailFairSpec == MailSpec /\ WF_vars(MailNext)


-----------------------------------------------------------------------------
(* archive-youtube-live-videos.py *)

\* lines 220-221: the defaults of --min-days and --max-days
min_days == 14
max_days == 365

\* what liveStreamingDetails.actualEndTime of a video may be (line 117):
\* missing, a text fromisoformat rejects, or a time, kept as its age in days
\* (now - video_end)
EndTimes ==
    {[kind |-> "none", age |-> 0], [kind |-> "bad", age |-> 0]}
    \cup {[kind |-> "time", age |-> a] : a \in {min_days, 100, max_days}}

\* the uploads a channel may hold
Uploads ==
    {[visibility |-> v, end_time |-> e] :
        v \in {"public", "unlisted"}, e \in EndTimes}

Channels == UNION {[1..n -> Uploads] : n \in 0..MaxVideos}

\* the script is started, with or without --dry-run, on any channel
ArchInit ==
    /\ ReframeIdle
    /\ MailIdle
    /\ PickIdle
    /\ arch_pc = "start"
    /\ dry_run \in BOOLEAN
    /\ channel \in Channels
    /\ videos = <<>>
    /\ to_archive = <<>>
    /\ arch_i = 0
    /\ update_calls = <<>>
    /\ arch_log = <<>>

\* lines 108-137: the record get_video_details builds for the upload id
VideoDetails(id) ==
    [id |-> id,
     visibility |-> channel[id].visibility,
     is_past_live |-> channel[id].end_time.kind # "none",
     end_time |-> channel[id].end_time]

\* lines 156-179: should_archive of one video.  video_end >= min_time is
\* age <= min_days, video_end <= max_time is age >= max_days.
ShouldArchive(video) ==
    /\ video.is_past_live
    /\ video.visibility = "public"
    /\ video.end_time.kind # "none"
    /\ video.end_time.kind # "bad"
    /\ ~(video.end_time.age <= min_days)
    /\ ~(video.end_time.age >= max_days)

\* lines 142-147: authenticate, list the uploads, fetch their details; an
\* exception of any of these ends the script
ArchFetch ==
    /\ arch_pc = "start"
    /\ \E ok \in BOOLEAN :
          IF ok
          THEN /\ videos' = [id \in 1..Len(channel) |-> VideoDetails(id)]
               /\ arch_log' = Append(arch_log, Ev("info", "Found total uploaded videos"))
               /\ arch_pc' = "select"
          ELSE /\ arch_log' = Append(arch_log, Ev("error", "Traceback"))
               /\ arch_pc' = "failed"
               /\ UNCHANGED videos
    /\ UNCHANGED <<dry_run, channel, to_archive, arch_i, update_calls,
                   reframe, mail, pick>>

\* lines 149-191: the selection loop
ArchSelect ==
    /\ arch_pc = "select"
    /\ to_archive' = SelectSeq(videos, ShouldArchive)
    /\ arch_log' = Append(arch_log, Ev("info", "Found videos to archive"))
    /\ arch_i' = 1
    /\ arch_pc' = "archive"
    /\ UNCHANGED <<dry_run, channel, videos, update_calls, reframe, mail, pick>>

\* ArchiveVideo that does not look at dry_run
ArchiveVideoAlways ==
    /\ arch_pc = "archive"
    /\ arch_i <= Len(to_archive)
    /\ LET video == to_archive[arch_i]
       IN  \E ok \in BOOLEAN :
              /\ update_calls' = Append(update_calls, video.id)
              /\ IF ok
                 THEN /\ channel' = [channel EXCEPT ![video.id].visibility = "private"]
                      /\ arch_log' = arch_log \o
                            <<Ev("info", "Archiving"),
                              Ev("info", "Visibility changed to private")>>
                 ELSE /\ arch_log' = arch_log \o
                            <<Ev("info", "Archiving"), Ev("error", "Failed to archive")>>
                      /\ UNCHANGED channel
    /\ arch_i' = arch_i + 1
    /\ UNCHANGED <<arch_pc, dry_run, videos, to_archive, reframe, mail, pick>>

\* lines 193-214: one turn of the archive loop
ArchiveVideo ==
    /\ arch_pc = "archive"
    /\ arch_i <= Len(to_archive)
    /\ LET video == to_archive[arch_i]
       IN  IF dry_run
           THEN /\ arch_log' = arch_log \o
                      <<Ev("info", "Archiving"), Ev("info", "Dry-run mode: no changes made")>>
                /\ UNCHANGED <<channel, update_calls>>
           ELSE \E ok \in BOOLEAN :
                   /\ update_calls' = Append(update_calls, video.id)
                   /\ IF ok
                      THEN /\ channel' = [channel EXCEPT ![video.id].visibility = "private"]
                           /\ arch_log' = arch_log \o
                                 <<Ev("info", "Archiving"),
                                   Ev("info", "Visibility changed to private")>>
                      ELSE /\ arch_log' = arch_log \o
                                 <<Ev("info", "Archiving"), Ev("error", "Failed to archive")>>
                           /\ UNCHANGED channel
    /\ arch_i' = arch_i + 1
    /\ UNCHANGED <<arch_pc, dry_run, videos, to_archive, reframe, mail, pick>>

\* line 193: the loop is over
ArchEnd ==
    /\ arch_pc = "archive"
    /\ arch_i > Len(to_archive)
    /\ arch_pc' = "done"
    /\ UNCHANGED <<dry_run, channel, videos, to_archive, arch_i, update_calls,
                   arch_log, reframe, mail, pick>>

ArchNext ==
    \/ ArchFetch
    \/ ArchSelect
    \/ ArchiveVideo
    \/ ArchEnd

ArchSpec == ArchInit /\ [][ArchNext]_vars


-----------------------------------------------------------------------------
(* shorts_maker/make_shorts_from_wisdom.py: pick_video_for_service *)

\* A file name is the sequence of its characters' codes, so that split(),
\* int() and the order of sorted() are those of the text.
SPACE == 32
DASH == 45
DOT == 46
ZERO == 48

RECURSIVE SplitFrom(_, _, _, _, _)
SplitFrom(str, sep, i, cur, out) ==
    IF i > Len(str) THEN Append(out, cur)
    ELSE IF str[i] = sep THEN SplitFrom(str, sep, i + 1, <<>>, Append(out, cur))
    ELSE SplitFrom(str, sep, i + 1, Append(cur, str[i]), out)

\* str.split(sep) for a one-character sep
Split(str, sep) == SplitFrom(str, sep, 1, <<>>, <<>>)

\* int(t) raises ValueError unless t is a non-empty run of digits (names with
\* signs, blanks or underscores inside a field are not drawn)
IsDigits(t) == t # <<>> /\ \A i \in 1..Len(t) : t[i] \in ZERO..(ZERO + 9)

RECURSIVE PyInt(_)
PyInt(t) ==
    IF t = <<>> THEN 0
    ELSE 10 * PyInt(SubSeq(t, 1, Len(t) - 1)) + (t[Len(t)] - ZERO)

\* lines 91-103: (hour, minute) of 'YYYY-MM-DD HH-MM-SS.ext'; <<>> is None
parse_filename_time(fname) ==
    LET parts == Split(fname, SPACE)
    IN  IF Len(parts) < 2 THEN <<>>
        ELSE LET time_part == Split(parts[2], DOT)[1]
                 fields == Split(time_part, DASH)
             IN  IF Len(fields) # 3 THEN <<>>
                 ELSE IF ~IsDigits(fields[1]) \/ ~IsDigits(fields[2]) THEN <<>>
                 ELSE <<PyInt(fields[1]), PyInt(fields[2])>>

\* lines 105-106
minutes_after_midnight(h, m) == h * 60 + m

StartsWith(str, pre) ==
    Len(str) >= Len(pre) /\ SubSeq(str, 1, Len(pre)) = pre

EndsWith(str, suf) ==
    Len(str) >= Len(suf) /\ SubSeq(str, Len(str) - Len(suf) + 1, Len(str)) = suf

\* a < b in the order of Python's str comparison
RECURSIVE LexLess(_, _)
LexLess(a, b) ==
    IF b = <<>> THEN FALSE
    ELSE IF a = <<>> THEN TRUE
    ELSE IF Head(a) # Head(b) THEN Head(a) < Head(b)
    ELSE LexLess(Tail(a), Tail(b))

RECURSIVE Sorted(_)
\* sorted(names)
Sorted(names) ==
    IF names = {} THEN <<>>
    ELSE LET least == CHOOSE x \in names :
                        \A y \in names : x = y \/ LexLess(x, y)
         IN  <<least>> \o Sorted(names \ {least})

\* line 119: exts = [".mp4", ".mkv", ".mov", ".webm"]
mp4 == <<DOT, 109, 112, 52>>
mkv == <<DOT, 109, 107, 118>>
mov == <<DOT, 109, 111, 118>>
webm == <<DOT, 119, 101, 98, 109>>
exts == <<mp4, mkv, mov, webm>>

\* base_dir.glob(f"{sunday_str}*{ext}")
Glob(dir, sunday_str, ext) ==
    {n \in dir : StartsWith(n, sunday_str) /\ EndsWith(n, ext)
                 /\ Len(n) >= Len(sunday_str) + Len(ext)}

RECURSIVE CandidatesFrom(_, _, _)
\* lines 120-122: the sorted matches of each extension, one extension
\* after the other
CandidatesFrom(dir, sunday_str, k) ==
    IF k > Len(exts) THEN <<>>
    ELSE Sorted(Glob(dir, sunday_str, exts[k]))
            \o CandidatesFrom(dir, sunday_str, k + 1)

RECURSIVE FirstMatch(_, _)
\* lines 126-138: the loop over the candidates
FirstMatch(candidates, svc) ==
    IF candidates = <<>> THEN <<>>
    ELSE LET p == Head(candidates)
             t == parse_filename_time(p)
         IN  IF t = <<>> THEN FirstMatch(Tail(candidates), svc)
             ELSE LET total == minutes_after_midnight(t[1], t[2])
                  IN  IF total < 540 \/ total > 780
                      THEN FirstMatch(Tail(candidates), svc)
                      ELSE IF svc = "1st" /\ total < 660 THEN p
                      ELSE IF svc = "2nd" /\ total >= 675 THEN p
                      ELSE FirstMatch(Tail(candidates), svc)

\* lines 108-138
pick_video_for_service(dir, sunday_str, svc) ==
    FirstMatch(CandidatesFrom(dir, sunday_str, 1), svc)

\* "2024-01-07" and "2024-01-14"
sunday == <<50, 48, 50, 52, DASH, 48, 49, DASH, 48, 55>>
next_sunday == <<50, 48, 50, 52, DASH, 48, 49, DASH, 49, 52>>

TwoDigits(n) == <<ZERO + (n \div 10), ZERO + (n % 10)>>

\* '<day> HH-MM-00<ext>'
Recording(day, hh, mm, ext) ==
    day \o <<SPACE>> \o TwoDigits(hh) \o <<DASH>> \o TwoDigits(mm)
        \o <<DASH, ZERO, ZERO>> \o ext

\* the file names base_dir may hold: recordings around every limit of the
\* rules and in every extension, a text file, a recording of another day,
\* and names of the day that carry no time: '2024-01-07_a.mp4',
\* '2024-01-07 10-30.mp4', '2024-01-07 xx-30-00.mp4'
FileNames ==
    {Recording(sunday, 8, 59, mp4), Recording(sunday, 9, 0, mp4),
     Recording(sunday, 10, 0, mkv), Recording(sunday, 10, 30, mp4),
     Recording(sunday, 11, 0, mp4), Recording(sunday, 11, 14, mov),
     Recording(sunday, 11, 15, webm), Recording(sunday, 13, 0, mp4),
     Recording(sunday, 13, 1, mp4),
     Recording(sunday, 10, 0, <<DOT, 116, 120, 116>>),
     Recording(next_sunday, 10, 0, mp4),
     sunday \o <<95, 97>> \o mp4,
     sunday \o <<SPACE>> \o TwoDigits(10) \o <<DASH>> \o TwoDigits(30) \o mp4,
     sunday \o <<SPACE, 120, 120, DASH>> \o TwoDigits(30) \o <<DASH, ZERO, ZERO>> \o mp4}

\* pick_video_for_service is called on a directory of at most MaxFiles files
PickInit ==
    /\ ReframeIdle
    /\ MailIdle
    /\ ArchIdle
    /\ pick_pc = "call"
    /\ base_dir \in {d \in SUBSET FileNames : Cardinality(d) <= MaxFiles}
    /\ service \in {"1st", "2nd"}
    /\ picked = <<>>

\* lines 108-138: the call returns
PickVideo ==
    /\ pick_pc = "call"
    /\ picked' = pick_video_for_service(base_dir, sunday, service)
    /\ pick_pc' = "returned"
    /\ UNCHANGED <<base_dir, service, reframe, mail, arch>>

PickNext == PickVideo

PickSpec == PickInit /\ [][PickNext]_vars


-----------------------------------------------------------------------------
(* Properties *)

Logged(e) == \E i \in 1..Len(log) : log[i] = e
Range01(v, W) == 0 <= v /\ v <= (W - 1) * XS

\* C1: for every frame rendered in Pass 2, for every source width and
\* height, the crop left edge satisfies 0 <= left_edge <= W - crop_w.
C1_ClampInvariant ==
    \A k \in 1..Len(out_frames) :
        /\ 0 <= out_frames[k].left
        /\ out_frames[k].left <= (src.W - crop_w) * XS
        /\ 0 <= out_frames[k].x1
        /\ out_frames[k].x1 <= src.W - crop_w

\* C2: a detection step that does not switch moves the tracked position by
\* at most max_px_jump; a frame without a detection step, or without
\* candidates, does not move it at all.
C2_StickinessBound ==
    [][(pc = "pass1" /\ frame_idx' = frame_idx + 1) =>
          IF detected' /\ faces' # <<>>
          THEN frames_since_switch' # 0 =>
                  Abs(target_xc' - target_xc) <= args.max_px_jump * XS
          ELSE target_xc' = target_xc]_vars

\* a sticking step in which the limit cut the move to exactly max_px_jump
C2_Witness ==
    /\ pc = "pass1"
    /\ detected /\ faces # <<>>
    /\ frames_since_switch # 0
    /\ args.max_px_jump > 0
    /\ Len(xcenters_raw) >= 2
    /\ Abs(xcenters_raw[Len(xcenters_raw)] - xcenters_raw[Len(xcenters_raw) - 1])
          = args.max_px_jump * XS
    /\ Abs(BoxXc(faces[1]) - xcenters_raw[Len(xcenters_raw) - 1])
          > args.max_px_jump * XS

\* C3: when the audio-extract or the mux subprocess exits non-zero, the
\* output path still holds the video-only render of Pass 2, a warning was
\* printed and the run ends normally.
C3_MuxFailureKeepsVideo ==
    (Logged(Ev("exit_nonzero", "extract")) \/ Logged(Ev("exit_nonzero", "mux"))) =>
        /\ files.out = "video_only"
        /\ Logged(Ev("warning", "Audio mux failed"))
        /\ Logged(Ev("done", ""))
        /\ pc = "exit" /\ exit = "ok"

\* the mux subprocess failed after a successful extract, frames were rendered
C3_Witness ==
    /\ pc = "exit"
    /\ Logged(Ev("run", "extract"))
    /\ ~Logged(Ev("exit_nonzero", "extract"))
    /\ Logged(Ev("exit_nonzero", "mux"))
    /\ Len(out_frames) >= 1
    /\ files.out = "video_only"

\* C4: when CSV export is on and the CSV cannot be opened or written, only
\* the CSV is skipped: the run does not fail, every decoded frame is
\* rendered and the mux step runs.
C4_CsvFailureRecoverable ==
    (Logged(Ev("io_error", "csv open")) \/ Logged(Ev("io_error", "csv row"))) =>
        /\ exit # "fatal"
        /\ (pc = "exit" => Logged(Ev("run", "extract")))

\* C5: when the input does not exist or cannot be opened for decoding, the
\* run aborts and has created or opened no output video, debug video, CSV
\* or temporary audio file.
C5_UnreadableInputWritesNothing ==
    (\/ Logged(Ev("fatal", "Input not found"))
     \/ Logged(Ev("fatal", "Failed to open"))
     \/ Logged(Ev("fatal", "Failed to reopen input"))) =>
        /\ pc = "exit" /\ exit = "fatal"
        /\ files = NoFiles
        /\ writer = "none" /\ sbs_writer = "none" /\ ~csv_writer
        /\ out_frames = <<>> /\ sbs_frames = <<>> /\ csv_rows = <<>>

\* the input existed but the decoder could not open it
C5_Witness ==
    /\ pc = "exit"
    /\ exit = "fatal"
    /\ log = <<Ev("fatal", "Failed to open")>>

\* C6: when Pass 1 decodes no frame the run aborts with a failure and never
\* reaches the smoother, the video writer, the CSV writer or the muxer.
C6_NoFramesIsFatal ==
    (xcenters_raw = <<>> /\ pc \notin {"start", "detect", "pass1", "analyze"}) =>
        /\ pc = "exit" /\ exit = "fatal"
        /\ x_smooth = <<>>
        /\ ~Logged(Ev("smooth", ""))
        /\ writer = "none" /\ sbs_writer = "none" /\ ~csv_writer
        /\ files = NoFiles
        /\ \A i \in 1..Len(log) : log[i].ev \notin {"run", "writer", "writer_failed"}

\* the decoder opened the input and yielded no frame
C6_Witness ==
    /\ pc = "exit"
    /\ exit = "fatal"
    /\ log = <<Ev("fatal", "No frames read")>>

IsWriterTry(e) == e.ev \in {"writer", "writer_failed"}
WriterTries == SelectSeq(log, IsWriterTry)

\* C7: the main writer is opened by trying avc1, H264, mp4v in that order;
\* the first that opens is used and no later one is tried; the run aborts
\* with EncoderUnavailable only after all three were tried and failed.
C7_EncoderFallbackOrder ==
    LET t == WriterTries
        order == <<"avc1", "H264", "mp4v">>
    IN  /\ Len(t) <= 3
        /\ \A k \in 1..Len(t) :
              /\ t[k].arg = order[k]
              /\ t[k].ev = "writer" => (k = Len(t) /\ writer = t[k].arg)
        /\ writer # "none" => (Len(t) >= 1 /\ t[Len(t)] = Ev("writer", writer))
        /\ Logged(Ev("fatal", "Could not open VideoWriter")) =>
              t = <<Ev("writer_failed", "avc1"), Ev("writer_failed", "H264"),
                    Ev("writer_failed", "mp4v")>>

\* avc1 and H264 failed, mp4v opened, and frames were written with it
C7_Witness ==
    /\ writer = "mp4v"
    /\ Len(WriterTries) = 3
    /\ Len(out_frames) >= 1

\* C8: when the side-by-side video is requested and no encoder opens its
\* writer, debug output is off for the rest of the run (no frame goes to a
\* missing writer), and the main render writes every frame and goes on to
\* the mux step.
C8_DebugWriterUnavailable ==
    /\ \A k \in 1..Len(sbs_frames) :
          sbs_frames[k].to # "none" /\ sbs_frames[k].to = sbs_writer
    /\ Logged(Ev("warning", "Could not open SxS writer")) =>
          /\ ~args.debug_sbs
          /\ sbs_writer = "none"
          /\ sbs_frames = <<>>
          /\ files.debug = "absent"
          /\ (pc \in {"extract", "mux", "exit"} /\ ~Logged(Ev("io_error", "csv open"))
                /\ ~Logged(Ev("io_error", "csv row"))) =>
                /\ Len(out_frames) = frame_idx
                /\ frame_idx >= Len(xcenters_raw)
                /\ \A k \in 1..Len(out_frames) : out_frames[k].idx = k - 1
                /\ pc = "exit" => (exit = "ok" /\ Logged(Ev("run", "extract")))

\* no debug writer opened, the render wrote its frames and the run finished
C8_Witness ==
    /\ pc = "exit"
    /\ exit = "ok"
    /\ Logged(Ev("warning", "Could not open SxS writer"))
    /\ Len(out_frames) >= 2

RECURSIVE EmaAt(_, _, _)
\* the causal exponential filter of raw at position i (1-based), times
\* ALPHA_DEN^(i-1): e[1] = raw[1], e[i] = alpha e[i-1] + (1 - alpha) raw[i]
EmaAt(raw, i, smooth) ==
    IF i = 1 THEN raw[1]
    ELSE smooth * EmaAt(raw, i - 1, smooth)
            + (ALPHA_DEN - smooth) * raw[i] * ALPHA_DEN ^ (i - 2)

\* C10 as stated: the trajectory handed to Pass 2 is the causal exponential
\* filter of the raw one: smoothed[0] = raw[0] and
\* smoothed[i] = alpha smoothed[i-1] + (1 - alpha) raw[i].
C10_SmoothedIsEma ==
    x_smooth # <<>> =>
        /\ Len(x_smooth) = Len(xcenters_raw)
        /\ x_smooth[1] = xcenters_raw[1]
        /\ \A i \in 2..Len(x_smooth) :
              ALPHA_DEN * x_smooth[i] =
                  args.smooth * x_smooth[i - 1]
                    + (ALPHA_DEN - args.smooth) * xcenters_raw[i]

\* C10 amended: the trajectory handed to Pass 2 is that filter clipped to
\* [0, W - 1] entry by entry; it is the filter itself (anchor and
\* recurrence) whenever every value of the filter lies in [0, W - 1]
\* (raw values in that range are not enough: with alpha > 1 the filter
\* overshoots them).
C10_SmoothedIsClippedEma ==
    x_smooth # <<>> =>
        /\ Len(x_smooth) = Len(xcenters_raw)
        /\ \A i \in 1..Len(x_smooth) :
              /\ Range01(x_smooth[i], src.W)
              /\ x_smooth[i] * ALPHA_DEN ^ (i - 1) =
                    NpClip(EmaAt(xcenters_raw, i, args.smooth),
                           0, (src.W - 1) * XS * ALPHA_DEN ^ (i - 1))
        /\ (\A i \in 1..Len(xcenters_raw) :
                /\ 0 <= EmaAt(xcenters_raw, i, args.smooth)
                /\ EmaAt(xcenters_raw, i, args.smooth)
                      <= (src.W - 1) * XS * ALPHA_DEN ^ (i - 1)) =>
              /\ x_smooth[1] = xcenters_raw[1]
              /\ \A i \in 2..Len(x_smooth) :
                    ALPHA_DEN * x_smooth[i] =
                        args.smooth * x_smooth[i - 1]
                          + (ALPHA_DEN - args.smooth) * xcenters_raw[i]

\* a smoothed trajectory that lags behind a raw one that moved
C10_Witness ==
    /\ pc = "reopen"
    /\ args.smooth > 0
    /\ Len(x_smooth) >= 3
    /\ xcenters_raw[2] # xcenters_raw[1]
    /\ x_smooth[2] # xcenters_raw[2]
    /\ x_smooth[3] # x_smooth[2]

\* C11: when no detection step of the video yields a candidate
\* (frames_since_switch keeps the value of line 96: only a step with
\* candidates changes it, lines 131-141), the tracked target is W/2 on every
\* frame, the raw and the smoothed trajectories are constant, and every frame
\* is cropped at the same, centred, left edge.
C11_NoDetectionCenteredCrop ==
    (/\ pc \notin {"start", "detect"}
     /\ ~Logged(Ev("fatal", "Input not found"))
     /\ ~Logged(Ev("fatal", "Failed to open"))
     /\ frames_since_switch = FSS_INIT) =>
        /\ 2 * target_xc = src.W * XS
        /\ \A i \in 1..Len(xcenters_raw) : 2 * xcenters_raw[i] = src.W * XS
        /\ \A i \in 1..Len(x_smooth) :
              /\ x_smooth[i] = x_smooth[1]
              /\ x_smooth[i] = Min((src.W * XS) \div 2, (src.W - 1) * XS)
        /\ \A k \in 1..Len(out_frames) :
              /\ out_frames[k].left = out_frames[1].left
              /\ out_frames[k].x1 = out_frames[1].x1
              /\ out_frames[k].x2 = out_frames[1].x2
              /\ 2 * out_frames[k].left = Max(0, (src.W - crop_w) * XS)
              /\ out_frames[k].x1 + out_frames[k].x2 = src.W

\* a finished run of a 1920x1080 video in which no frame showed a face: all
\* three frames were cropped at columns [656, 1264)
C11_Witness ==
    /\ pc = "exit"
    /\ exit = "ok"
    /\ frames_since_switch = FSS_INIT
    /\ src.W = 1920
    /\ Len(out_frames) >= 3
    /\ \A k \in 1..Len(out_frames) :
          out_frames[k].x1 = 656 /\ out_frames[k].x2 = 1264

Clamp(v, lo, hi) == Max(lo, Min(hi, v))

\* C12: for every frame i of the trajectory the crop left edge is
\* clamp(smoothed_x[i] - crop_width/2, 0, source_width - crop_width), and the
\* first column sliced from the frame is that edge rounded to a whole pixel;
\* a 1920x1080 source has crop_width 608, and a smoothed x of 1000 gives the
\* left edge 696.
C12_LeftEdgeFormula ==
    /\ \A k \in 1..Len(out_frames) :
          LET i == out_frames[k].idx
          IN  i < Len(x_smooth) =>
                /\ 2 * out_frames[k].left =
                      Clamp(2 * x_smooth[i + 1] - crop_w * XS,
                            0, 2 * (src.W - crop_w) * XS)
                /\ 2 * Abs(out_frames[k].x1 * XS - out_frames[k].left) <= XS
                /\ (src.W = 1920 /\ src.H = 1080 /\ x_smooth[i + 1] = 1000 * XS) =>
                      /\ out_frames[k].left = 696 * XS
                      /\ out_frames[k].x1 = 696
    /\ (src.W = 1920 /\ src.H = 1080 /\ out_frames # <<>>) => crop_w = 608

\* Scenario A: a 1920x1080 frame whose smoothed x is 1000 was cropped at
\* 696, a later frame of the run at an edge that is not a whole pixel
C12_Witness ==
    /\ src.W = 1920 /\ src.H = 1080
    /\ crop_w = 608
    /\ Len(out_frames) >= 3
    /\ x_smooth[1] = 1000 * XS
    /\ out_frames[1].x1 = 696
    /\ \E k \in 2..Len(out_frames) :
          /\ out_frames[k].left % XS # 0
          /\ out_frames[k].left # out_frames[1].left

\* C13: the inner content rectangle is round(1080 f) x round(1920 f) for the
\* effective letterbox factor f, horizontally centred, flush to the top for
\* "top" (all vertical padding below), flush to the bottom for "bottom",
\* vertically centred for "center"; f = 0.8 with "top" fills the top 80% of
\* the canvas height and leaves the bottom 20% black.
C13_InnerRectangle ==
    pc \in {"pass2", "extract", "mux"} \/ (pc = "exit" /\ out_frames # <<>>) =>
        LET padx == TARGET_W - inner.w
            pady == TARGET_H - inner.h
        IN  /\ Abs(100 * inner.w - TARGET_W * inner.lb) <= 50
            /\ Abs(100 * inner.h - TARGET_H * inner.lb) <= 50
            /\ inner.x0 >= 0 /\ inner.x0 + inner.w <= TARGET_W
            /\ padx - inner.x0 \in {inner.x0, inner.x0 + 1}
            /\ inner.y0 >= 0 /\ inner.y0 + inner.h <= TARGET_H
            /\ args.letterbox_align = "top" => inner.y0 = 0
            /\ args.letterbox_align = "bottom" => inner.y0 + inner.h = TARGET_H
            /\ args.letterbox_align = "center" =>
                  pady - inner.y0 \in {inner.y0, inner.y0 + 1}
            /\ (args.letterbox = 80 /\ args.letterbox_align = "top") =>
                  /\ inner.y0 = 0
                  /\ 100 * inner.h = 80 * TARGET_H
                  /\ 100 * (TARGET_H - (inner.y0 + inner.h)) = 20 * TARGET_H
                  /\ 2 * inner.x0 = padx

\* Scenario D rendered: letterbox 0.8, "top", frames written
C13_Witness ==
    /\ args.letterbox = 80
    /\ args.letterbox_align = "top"
    /\ Len(out_frames) >= 1
    /\ inner.w = 864 /\ inner.h = 1536
    /\ inner.x0 = 108 /\ inner.y0 = 0

\* C14: the crop width is computed once per video as
\* clamp(round(source_height * 9 / 16), 64, source_width), is the same for
\* every frame, and never exceeds source_width, for every source size.
C14_CropWidthWithinSource ==
    Logged(Ev("smooth", "")) =>
        /\ crop_w = Clamp(PyRound(src.H * 9, 16), MIN_CROP_W, src.W)
        /\ crop_w <= src.W
        /\ \A k \in 1..Len(out_frames) :
              out_frames[k].x2 - out_frames[k].x1 <= crop_w

\* C15: the smoothing factor alpha handed to the smoother (args.smooth, line
\* 198) is in [0, 1), whatever value --smooth was given.
C15_AlphaInRange ==
    Logged(Ev("smooth", "")) =>
        0 <= args.smooth /\ args.smooth < ALPHA_DEN

\* C16: the letterbox factor the compositor uses is in [0.5, 1.0] whatever
\* value --letterbox was given: a value below 0.5 becomes 0.5, a value above
\* 1.0 becomes 1.0, a value in the range is used as it is; the inner
\* rectangle is sized with that factor and fits the canvas.
C16_LetterboxInRange ==
    pc \in {"pass2", "extract", "mux"} \/ (pc = "exit" /\ out_frames # <<>>) =>
        /\ 50 <= inner.lb /\ inner.lb <= 100
        /\ args.letterbox < 50 => inner.lb = 50
        /\ args.letterbox > 100 => inner.lb = 100
        /\ args.letterbox \in 50..100 => inner.lb = args.letterbox
        /\ 2 * inner.w >= TARGET_W /\ inner.w <= TARGET_W
        /\ 2 * inner.h >= TARGET_H /\ inner.h <= TARGET_H

\* --letterbox 0.3 was rendered with the factor 0.5
C16_Witness ==
    /\ args.letterbox = 30
    /\ Len(out_frames) >= 1
    /\ inner.lb = 50
    /\ inner.w = 540 /\ inner.h = 960

\* C17: the raw trajectory of Pass 1 has exactly one entry per decoded frame,
\* detection frame or not, candidates or not, and the smoothed trajectory
\* has the length of the raw one.
C17_OneEntryPerFrame ==
    /\ pc \in {"pass1", "analyze", "reopen", "open_writer", "sbs_setup",
               "open_sbs", "open_csv", "layout"} =>
          Len(xcenters_raw) = frame_idx
    /\ Logged(Ev("smooth", "")) =>
          /\ Len(x_smooth) = Len(xcenters_raw)
          /\ Len(x_smooth) >= 1

\* three frames decoded with stride 2: two detection frames, the last with a
\* face, and one frame in between without detection; then smoothed
C17_Witness ==
    /\ pc = "reopen"
    /\ args.stride = 2
    /\ frame_idx = 3
    /\ faces # <<>>
    /\ Len(xcenters_raw) = 3
    /\ Len(x_smooth) = 3

\* the cell c (a count of thousandths) is the position v/XS (v >= 0) to
\* three decimals: |c/1000 - v/XS| <= 0.0005
Near3(c, v) ==
    2 * Abs((c - 1000 * (v \div XS)) * XS - 1000 * (v % XS)) <= XS

\* C18: with CSV export on, one data row is written per rendered frame, in
\* frame order with indices 0, 1, 2, ... and no gap; the row of a frame
\* carries its index, its raw x and its smoothed x (to three decimals; empty
\* for a frame decoded beyond the trajectory), and the left edge that was
\* used to crop that frame.
C18_CsvRowPerFrame ==
    csv_rows # <<>> =>
        /\ csv_rows[1] = "header"
        /\ IF Logged(Ev("io_error", "csv row"))
           THEN Len(csv_rows) = Len(out_frames)
           ELSE Len(csv_rows) = Len(out_frames) + 1
        /\ \A k \in 2..Len(csv_rows) :
              LET r == csv_rows[k]
                  f == out_frames[k - 1]
              IN  /\ r.frame = k - 2
                  /\ f.idx = r.frame
                  /\ r.x1_left = 1000 * f.x1
                  /\ IF r.frame < Len(xcenters_raw)
                     THEN /\ Near3(r.x_raw, xcenters_raw[r.frame + 1])
                          /\ Near3(r.x_smooth, x_smooth[r.frame + 1])
                     ELSE r.x_raw = -1 /\ r.x_smooth = -1

\* a finished run that exported three or more rows, with a frame whose
\* smoothed x lags behind its raw x and whose crop is not at the left border
C18_Witness ==
    /\ pc = "exit"
    /\ exit = "ok"
    /\ Len(csv_rows) >= 4
    /\ Len(csv_rows) = Len(out_frames) + 1
    /\ csv_rows[3].frame = 1
    /\ csv_rows[3].x_raw # csv_rows[3].x_smooth
    /\ csv_rows[3].x1_left > 0
    /\ csv_rows[3].x1_left = 1000 * out_frames[2].x1

Count(e) == Cardinality({i \in 1..Len(log) : log[i] = e})

\* C19: the reframing run retries nothing: the audio-extract subprocess and
\* the mux subprocess are each started at most once, the mux subprocess only
\* after an extract that succeeded, a failed step is not started again, and
\* the failure is caught: a warning, then the normal end of the run.
C19_NoRetries ==
    /\ Count(Ev("run", "extract")) <= 1
    /\ Count(Ev("run", "mux")) <= 1
    /\ Count(Ev("exit_nonzero", "extract")) + Count(Ev("exit_nonzero", "mux")) <= 1
    /\ Logged(Ev("run", "mux")) =>
          /\ Logged(Ev("run", "extract"))
          /\ ~Logged(Ev("exit_nonzero", "extract"))
    /\ \A step \in {"extract", "mux"} :
          Logged(Ev("exit_nonzero", step)) =>
              /\ Count(Ev("run", step)) = 1
              /\ Count(Ev("warning", "Audio mux failed")) = 1
              /\ log[Len(log)] = Ev("done", "")
              /\ pc = "exit" /\ exit = "ok"

\* the audio extract failed after frames were rendered: the mux subprocess
\* never ran and the run ended normally
C19_Witness ==
    /\ pc = "exit"
    /\ exit = "ok"
    /\ Len(out_frames) >= 1
    /\ Count(Ev("run", "extract")) = 1
    /\ Logged(Ev("exit_nonzero", "extract"))
    /\ ~Logged(Ev("run", "mux"))

\* C20: in a run of send-mail with --debug every email sent, the one of the
\* retry after a failed first attempt included, is addressed to
\* william@charlotteag.org only, never to the sunday-wisdom list.
C20_DebugOnlyToWilliam ==
    mail_debug =>
        \A k \in 1..Len(sent) :
            /\ sent[k].to = <<"william@charlotteag.org">>
            /\ \A j \in 1..Len(sent[k].to) :
                  sent[k].to[j] # "sunday-wisdom@charlotteag.org"

\* C21: with --dry-run the archive run issues no status-update call for any
\* video, on every channel: every video keeps the visibility it had.
C21_DryRunChangesNothing ==
    dry_run =>
        /\ update_calls = <<>>
        /\ \A k \in 1..Len(arch_log) :
              arch_log[k] # Ev("info", "Visibility changed to private")
        /\ arch_pc \in {"select", "archive", "done"} =>
              /\ Len(videos) = Len(channel)
              /\ \A id \in 1..Len(channel) :
                    channel[id].visibility = videos[id].visibility

\* a finished dry run on a channel with a video that qualifies: it is
\* announced and still public
C21_Witness ==
    /\ dry_run
    /\ arch_pc = "done"
    /\ Len(to_archive) >= 1
    /\ update_calls = <<>>
    /\ channel[to_archive[1].id].visibility = "public"
    /\ arch_log[Len(arch_log)] = Ev("info", "Dry-run mode: no changes made")

\* the video files of the given Sunday, and whether a name qualifies for a
\* service: its time is within 09:00-13:00, before 11:00 for the 1st
\* service, at or after 11:15 for the 2nd
SundayVideos ==
    {n \in base_dir : StartsWith(n, sunday)
                      /\ \E k \in 1..Len(exts) : EndsWith(n, exts[k])}

Qualifies(n, svc) ==
    LET t == parse_filename_time(n)
    IN  /\ t # <<>>
        /\ t[1] * 60 + t[2] >= 9 * 60
        /\ t[1] * 60 + t[2] <= 13 * 60
        /\ svc = "1st" => t[1] * 60 + t[2] < 11 * 60
        /\ svc = "2nd" => t[1] * 60 + t[2] >= 11 * 60 + 15

\* C22: pick_video_for_service returns the first file, in sorted order over
\* all files of the given Sunday, whose filename time lies in 09:00-13:00
\* and satisfies the service rule, and None when no file qualifies.
C22_PickFirstInSortedOrder ==
    pick_pc = "returned" =>
        LET good == {n \in SundayVideos : Qualifies(n, service)}
        IN  IF good = {} THEN picked = <<>>
            ELSE /\ picked \in good
                 /\ \A n \in good : n = picked \/ LexLess(picked, n)

\* a step of Pass 1, and a step of it that runs the detector
Pass1Step == pc = "pass1" /\ frame_idx' = frame_idx + 1
DetectionStep == Pass1Step /\ detected'

\* the candidate (x-centre in 1/XS px, area) of the greatest score among
\* fs, the earliest of them when several have it; the score is
\* area - |x_center - current_x| with proximity preference, else area
Chosen(fs, txc, prefer) ==
    LET xc(i) == fs[i].x * XS + (fs[i].w * XS) \div 2
        score(i) == IF prefer THEN fs[i].w * fs[i].h * XS - Abs(xc(i) - txc)
                    ELSE fs[i].w * fs[i].h * XS
        i0 == CHOOSE i \in 1..Len(fs) :
                 /\ \A j \in 1..Len(fs) : score(j) <= score(i)
                 /\ \A j \in 1..(i - 1) : score(j) < score(i)
    IN  [xc |-> xc(i0), area |-> fs[i0].w * fs[i0].h]

\* area(b) >= switch_area_ratio * current_area
AreaRule(b, tarea, ratio) == b.area * ratio.d * tarea.d >= ratio.n * tarea.n

\* |x(b) - current_x| < 0.15 * source_width and area(b) > 1.1 * current_area
NearRule(b, txc, tarea, W) ==
    /\ 100 * Abs(b.xc - txc) < 15 * W * XS
    /\ 10 * b.area * tarea.d > 11 * tarea.n

\* the switch test of the tracker on the state before the step
SwitchRule(b) ==
    /\ frames_since_switch >= args.stick_frames
    /\ \/ AreaRule(b, target_area, args.switch_area_ratio)
       \/ args.prefer_near_prev /\ NearRule(b, target_xc, target_area, src.W)

\* C23: a detection step whose candidate set is empty leaves current_x and
\* current_area as they are and still adds one to frames_since_switch.
C23_EmptyStepCounts ==
    [][(DetectionStep /\ faces' = <<>>) =>
          /\ target_xc' = target_xc
          /\ target_area' = target_area
          /\ frames_since_switch' = frames_since_switch + 1]_vars

\* C24: the tracker does not switch on a detection step at which
\* frames_since_switch < stick_frames, whatever the candidates: every switch
\* (but the first of the run) comes after at least stick_frames sticking
\* steps since the switch before it.
C24_NoSwitchInsideWindow ==
    [][(DetectionStep /\ faces' # <<>>) =>
          /\ frames_since_switch < args.stick_frames =>
                /\ frames_since_switch' = frames_since_switch + 1
                /\ Abs(target_xc' - target_xc) <= args.max_px_jump * XS
          /\ frames_since_switch' = 0 =>
                frames_since_switch >= args.stick_frames]_vars

\* one step after a switch to a face of area 10000 at x = 300, a face of
\* area 25000 at x = 1200 was seen inside the window of 2: no switch, the
\* target moved by max_px_jump and the area was blended
C24_Witness ==
    /\ pc = "pass1"
    /\ args.stick_frames = 2
    /\ args.max_px_jump = 30
    /\ detected
    /\ faces = <<bB>>
    /\ frames_since_switch = 1
    /\ xcenters_raw = <<300 * XS, 330 * XS>>
    /\ target_area = [n |-> 11500, d |-> 1]

\* C25: on a detection step with frames_since_switch >= stick_frames the
\* tracker switches iff area(best) >= switch_area_ratio * current_area, or
\* proximity preference is on and |x(best) - current_x| < 0.15 W and
\* area(best) > 1.1 current_area; the area-ratio clause alone suffices, and
\* without proximity preference it is the only cause of a switch.
C25_SwitchIff ==
    [][(/\ DetectionStep /\ faces' # <<>>
        /\ frames_since_switch >= args.stick_frames) =>
          LET b == Chosen(faces', target_xc, args.prefer_near_prev)
              switched == frames_since_switch' = 0
          IN  /\ switched <=>
                    \/ AreaRule(b, target_area, args.switch_area_ratio)
                    \/ /\ args.prefer_near_prev
                       /\ NearRule(b, target_xc, target_area, src.W)
              /\ AreaRule(b, target_area, args.switch_area_ratio) => switched
              /\ ~args.prefer_near_prev =>
                    (switched <=> AreaRule(b, target_area, args.switch_area_ratio))]_vars

\* a switch by the proximity clause alone: from a face of area 10000 at
\* x = 300 to one of area 12100 (less than twice, more than 1.1 times) at
\* x = 355
C25_Witness ==
    /\ pc = "pass1"
    /\ args.prefer_near_prev
    /\ detected
    /\ faces = <<bD>>
    /\ frames_since_switch = 0
    /\ Len(xcenters_raw) >= 2
    /\ xcenters_raw[Len(xcenters_raw) - 1] = 300 * XS
    /\ target_xc = 355 * XS
    /\ target_area = [n |-> 12100, d |-> 1]

C27_StickState ==
    [][(DetectionStep /\ faces' # <<>>) =>
          LET b == Chosen(faces', target_xc, args.prefer_near_prev)
          IN  ~SwitchRule(b) =>
                 /\ target_xc' = target_xc + Clamp(b.xc - target_xc,
                                                   -(args.max_px_jump * XS),
                                                   args.max_px_jump * XS)
                 \* n'/d' = (9 n + max(1, area(best)) d) / (10 d), d' dividing 10 d
                 /\ (10 * target_area.d) % target_area'.d = 0
                 /\ target_area'.n * ((10 * target_area.d) \div target_area'.d)
                       = 9 * target_area.n + Max(1, b.area) * target_area.d
                 /\ frames_since_switch' = frames_since_switch + 1]_vars

\* a stick on a box of area 0 after a switch to a face of area 576: the
\* area becomes 0.9 * 576 + 0.1 * 1 = 518.5
C27_Witness ==
    /\ pc = "pass1"
    /\ detected
    /\ faces = <<bZ>>
    /\ frames_since_switch = 1
    /\ Len(xcenters_raw) = 2
    /\ target_area = [n |-> 5185, d |-> 10]

\* C28: the best candidate of a detection step is the one of the greatest
\* score, the first in enumeration order among those of equal score: it is
\* the one the switch test is made on and the one the step moves to or
\* towards.
C28_BestIsFirstMaximum ==
    [][(DetectionStep /\ faces' # <<>>) =>
          LET b == Chosen(faces', target_xc, args.prefer_near_prev)
          IN  /\ frames_since_switch' = 0 <=> SwitchRule(b)
              /\ frames_since_switch' = 0 => target_xc' = b.xc
              /\ frames_since_switch' # 0 =>
                    /\ Abs(target_xc' - target_xc) <= Abs(b.xc - target_xc)
                    /\ Sign(target_xc' - target_xc) \in {0, Sign(b.xc - target_xc)}
                    /\ Abs(b.xc - target_xc) <= args.max_px_jump * XS =>
                          target_xc' = b.xc]_vars

\* two faces of the same area and no proximity preference: the first
\* enumerated, at x centre 320, is taken, not the one at 300
C28_Witness ==
    /\ pc = "pass1"
    /\ ~args.prefer_near_prev
    /\ faces = <<bG, bA>>
    /\ bG.w * bG.h = bA.w * bA.h
    /\ frames_since_switch = 0
    /\ target_xc = 320 * XS

\* C29: with a positive detection stride the detector and the tracker
\* update run on the frames whose index is a multiple of the stride and only
\* on them; on every other frame the tracker state is unchanged and the raw
\* trajectory entry is the current target, the same as the entry before.
C29_StrideFrames ==
    [][(Pass1Step /\ args.stride > 0) =>
          /\ detected' <=> frame_idx % args.stride = 0
          /\ frame_idx % args.stride # 0 =>
                /\ target_xc' = target_xc
                /\ target_area' = target_area
                /\ frames_since_switch' = frames_since_switch
                /\ xcenters_raw' = Append(xcenters_raw, target_xc)
                /\ xcenters_raw # <<>> =>
                      xcenters_raw'[Len(xcenters_raw')]
                         = xcenters_raw[Len(xcenters_raw)]]_vars

\* stride 2: frame 1 repeats the entry of frame 0, a face away from the
\* centre of the source
C29_Witness ==
    /\ pc = "pass1"
    /\ args.stride = 2
    /\ ~detected
    /\ Len(xcenters_raw) = 2
    /\ xcenters_raw[2] = xcenters_raw[1]
    /\ 2 * xcenters_raw[1] # src.W * XS
    /\ frames_since_switch = 0

\* C30: the phases of a run are strictly ordered.  The smoothed trajectory
\* is computed in one step, after which Pass 1 reads no frame; Pass 2 writes
\* a frame only when the smoothed trajectory exists, whole, one entry per
\* raw entry, and does not change it; the muxer is started only from the
\* state where the writers have been released and the output file closed,
\* it is started once, and no frame is written once it has started.
C30_PhasesOrdered ==
    [][/\ x_smooth' # x_smooth =>
             /\ pc = "analyze"
             /\ x_smooth = <<>>
             /\ ~Logged(Ev("smooth", ""))
             /\ out_frames = <<>>
             /\ Len(x_smooth') = Len(xcenters_raw)
       /\ Logged(Ev("smooth", "")) => xcenters_raw' = xcenters_raw
       /\ out_frames' # out_frames =>
             /\ Logged(Ev("smooth", ""))
             /\ Len(x_smooth) = Len(xcenters_raw)
             /\ x_smooth' = x_smooth
             /\ ~Logged(Ev("released", ""))
             /\ ~Logged(Ev("run", "extract"))
       /\ (~Logged(Ev("run", "extract")) /\ Logged(Ev("run", "extract"))') =>
             /\ Logged(Ev("released", ""))
             /\ files.out = "video_only"
             /\ Count(Ev("released", "")) = 1
       /\ Logged(Ev("run", "extract")) =>
             /\ Count(Ev("run", "extract"))' = 1
             /\ out_frames' = out_frames
             /\ files'.out # "open"]_vars

\* a whole run: three frames tracked, smoothed, written, and then muxed
C30_Witness ==
    /\ pc = "exit"
    /\ exit = "ok"
    /\ Len(xcenters_raw) = MaxFrames
    /\ Len(x_smooth) = MaxFrames
    /\ Len(out_frames) = MaxFrames
    /\ Count(Ev("smooth", "")) = 1
    /\ Count(Ev("released", "")) = 1
    /\ Count(Ev("run", "extract")) = 1
    /\ files.out = "muxed"

\* C31: every step of Pass 2 leaves the raw trajectory, the smoothed
\* trajectory and the crop width as they are, runs no detection and leaves
\* the tracker state as it is.
C31_Pass2ReadsOnly ==
    [][pc = "pass2" =>
          /\ xcenters_raw' = xcenters_raw
          /\ x_smooth' = x_smooth
          /\ crop_w' = crop_w
          /\ faces' = faces
          /\ detected' = detected
          /\ target_xc' = target_xc
          /\ target_area' = target_area
          /\ frames_since_switch' = frames_since_switch]_vars

\* Pass 2 has written two frames of a 48-pixel-wide source, narrower than
\* the crop width of 64, after a Pass 1 that tracked a face
C31_Witness ==
    /\ pc = "pass2"
    /\ Len(out_frames) = 2
    /\ src.W < crop_w
    /\ frames_since_switch # FSS_INIT
    /\ Len(x_smooth) = Len(xcenters_raw)

\* C32: the tracker starts in (source_width / 2, 1, +infinity): until a
\* detection step has had a candidate the state is that one, and the gate
\* frames_since_switch >= stick_frames is open whatever stick_frames is.
C32_InitialGateOpen ==
    (pc = "pass1" /\ frames_since_switch = FSS_INIT) =>
        /\ 2 * target_xc = src.W * XS
        /\ target_area = [n |-> 1, d |-> 1]
        /\ frames_since_switch >= args.stick_frames

MailCount(e) == Cardinality({i \in 1..Len(mail_log) : mail_log[i] = e})

\* C33: send_email makes at most two attempts: a failed first attempt is
\* followed by exactly one retry, a failed retry by no further attempt, and
\* the call always ends; at most one email is sent, and a wisdom file is
\* removed only after a send that succeeded, and only if it was attached to
\* the email sent.
C33_AtMostTwoAttempts ==
    /\ [](/\ MailCount(Ev("exception", "Failed to send email")) <= 2
          /\ MailCount(Ev("info", "Retrying")) <= 1
          /\ MailCount(Ev("exception", "Failed to send email")) >= 1 =>
                /\ MailCount(Ev("info", "Retrying")) = 1
                /\ retry
          /\ MailCount(Ev("exception", "Failed to send email")) = 2 =>
                /\ mail_pc = "done"
                /\ mail_log[Len(mail_log)] = Ev("error", "Retry failed. Giving up.")
          /\ retry => MailCount(Ev("info", "Retrying")) = 1
          /\ Len(sent) <= 1
          /\ sent # <<>> => mail_pc \in {"cleanup", "done"})
    /\ [][tmp_files' # tmp_files =>
             /\ Len(sent) = 1
             /\ MailCount(Ev("info", "Email sent")) = 1
             /\ tmp_files' \subseteq tmp_files
             /\ \A f \in tmp_files \ tmp_files' :
                   \E i \in 1..Len(sent[1].files) : sent[1].files[i] = f]_vars
    /\ <>(mail_pc = "done")

\* the first attempt failed at the send call, the retry sent the email and
\* removed the attached files
C33_Witness ==
    /\ mail_pc = "done"
    /\ retry
    /\ MailCount(Ev("exception", "Failed to send email")) = 1
    /\ MailCount(Ev("info", "Retrying")) = 1
    /\ Len(sent) = 1
    /\ message.files # <<>>
    /\ tmp_files = {}

\* both subprocesses of the mux step were run and neither exited non-zero
BothSucceeded ==
    /\ Logged(Ev("run", "extract"))
    /\ Logged(Ev("run", "mux"))
    /\ ~Logged(Ev("exit_nonzero", "extract"))
    /\ ~Logged(Ev("exit_nonzero", "mux"))

\* C34 as stated: when the audio-extract and the mux subprocess both
\* succeed, the output path holds the muxed file, the temporary audio file
\* is deleted and no temporary file of the run remains.
C34_MuxedAndClean ==
    BothSucceeded =>
        /\ files.out = "muxed"
        /\ files.audio = "absent"
        /\ files.muxed = "absent"

\* C34 amended: when both subprocesses succeed the run ends normally, and
\* if os.replace succeeds the output path holds the muxed file, the
\* temporary muxed file is gone and the temporary audio file is either
\* deleted or, its removal failing, left behind untouched; if os.replace
\* fails the warning is printed, the output path keeps the video-only file
\* and both temporary files remain.
C34_MuxedOrLeftBehind ==
    BothSucceeded =>
        /\ pc = "exit" /\ exit = "ok"
        /\ log[Len(log)] = Ev("done", "")
        /\ IF Logged(Ev("os_error", "replace"))
           THEN /\ Logged(Ev("warning", "Audio mux failed"))
                /\ ~Logged(Ev("mux_complete", ""))
                /\ files.out = "video_only"
                /\ files.muxed = "muxed"
                /\ files.audio = "aac"
           ELSE /\ Logged(Ev("mux_complete", ""))
                /\ ~Logged(Ev("warning", "Audio mux failed"))
                /\ files.out = "muxed"
                /\ files.muxed = "absent"
                /\ files.audio \in {"absent", "aac"}
                /\ env = "clean" => files.audio = "absent"

\* a clean run that rendered frames and muxed the audio: no temporary file
C34_Witness ==
    /\ BothSucceeded
    /\ env = "clean"
    /\ Len(out_frames) >= 1
    /\ files.out = "muxed"
    /\ files.audio = "absent"
    /\ files.muxed = "absent"

\* C35: in every state of the tracker current_area >= 1, whatever the
\* areas of the candidates seen, areas below 1 included.
C35_AreaAtLeastOne ==
    /\ target_area.d >= 1
    /\ target_area.n >= target_area.d

\* the tracker stuck to a box of area 0 from its initial state: the area
\* is 0.9 * 1 + 0.1 * max(1, 0) = 1
C35_Witness ==
    /\ pc = "pass1"
    /\ detected
    /\ faces = <<bZ>>
    /\ BoxArea(bZ) < 1
    /\ frames_since_switch = FSS_INIT + 1
    /\ target_area = [n |-> 1, d |-> 1]

\* every face the source can show has its x-centre in [0, source_width]
CandidatesInRange ==
    \A fs \in src.shows : \A i \in 1..Len(fs) :
        0 <= 2 * fs[i].x + fs[i].w /\ 2 * fs[i].x + fs[i].w <= 2 * src.W

\* C36: with every candidate's x-centre in [0, source_width] and
\* max_px_jump >= 0, every raw trajectory value lies in [0, source_width],
\* and a sticking step moves current_x towards x(best), never past it:
\* |x(best) - current_x| does not grow.
C36_RawWithinSource ==
    /\ [](CandidatesInRange /\ args.max_px_jump >= 0 =>
             \A i \in 1..Len(xcenters_raw) :
                 0 <= xcenters_raw[i] /\ xcenters_raw[i] <= src.W * XS)
    /\ [][(/\ DetectionStep /\ faces' # <<>>
           /\ CandidatesInRange /\ args.max_px_jump >= 0
           /\ frames_since_switch' # 0) =>
             LET b == Chosen(faces', target_xc, args.prefer_near_prev)
             IN  /\ Abs(b.xc - target_xc') <= Abs(b.xc - target_xc)
                 /\ Abs(target_xc' - target_xc) <= Abs(b.xc - target_xc)
                 /\ Sign(b.xc - target_xc') \in {0, Sign(b.xc - target_xc)}]_vars

\* two sticking steps in a row, each moving the target, the face not yet
\* reached
C36_Witness ==
    /\ pc = "pass1"
    /\ detected
    /\ faces # <<>>
    /\ args.max_px_jump > 0
    /\ frames_since_switch = 2
    /\ Len(xcenters_raw) = 3
    /\ xcenters_raw[2] # xcenters_raw[1]
    /\ xcenters_raw[3] # xcenters_raw[2]
    /\ Abs(BoxXc(faces[1]) - target_xc) > args.max_px_jump * XS

\* C37: in Pass 2 the trajectory index is clamped to [0, length - 1]: a
\* frame decoded beyond the frames Pass 1 recorded is cropped with the last
\* smoothed value, as the last recorded frame is, and its CSV row has empty
\* cells for the raw and the smoothed value; every other frame uses the
\* entry of its own index.
C37_IndexClamped ==
    out_frames # <<>> =>
        LET n == Len(x_smooth) IN
        /\ n >= 1
        /\ Len(xcenters_raw) = n
        /\ \A k \in 1..Len(out_frames) :
              LET i == out_frames[k].idx
                  j == Clamp(i, 0, n - 1)
              IN  /\ i >= 0
                  /\ 2 * out_frames[k].left =
                        Clamp(2 * x_smooth[j + 1] - crop_w * XS,
                              0, 2 * (src.W - crop_w) * XS)
                  /\ (i >= n /\ Len(out_frames) >= n) =>
                        /\ j = n - 1
                        /\ out_frames[k].left = out_frames[n].left
                        /\ out_frames[k].x1 = out_frames[n].x1
                        /\ out_frames[k].x2 = out_frames[n].x2
        /\ \A k \in 2..Len(csv_rows) :
              IF csv_rows[k].frame < n
              THEN csv_rows[k].x_raw >= 0 /\ csv_rows[k].x_smooth >= 0
              ELSE csv_rows[k].x_raw = -1 /\ csv_rows[k].x_smooth = -1

\* Pass 2 decoded one frame more than Pass 1 recorded, of a trajectory whose
\* first and last crops differ, and wrote its CSV row
C37_Witness ==
    /\ Len(xcenters_raw) >= 2
    /\ Len(out_frames) = Len(xcenters_raw) + 1
    /\ out_frames[Len(out_frames)].idx = Len(x_smooth)
    /\ out_frames[1].x1 # out_frames[Len(x_smooth)].x1
    /\ Len(csv_rows) = Len(out_frames) + 1
    /\ csv_rows[Len(csv_rows)].x_smooth = -1

\* C38: for every --letterbox value and every alignment the inner
\* rectangle lies inside the 1080x1920 canvas: 0 <= x0,
\* x0 + inner_w <= 1080, 0 <= y0, y0 + inner_h <= 1920; every frame written
\* to the main output is a 1080x1920 canvas.
C38_InnerInsideCanvas ==
    /\ (pc \in {"pass2", "extract", "mux"} \/ out_frames # <<>>) =>
          /\ inner.w >= 1 /\ inner.h >= 1
          /\ 0 <= inner.x0
          /\ inner.x0 + inner.w <= 1080
          /\ 0 <= inner.y0
          /\ inner.y0 + inner.h <= 1920
    /\ \A k \in 1..Len(out_frames) :
          out_frames[k].canvas_w = 1080 /\ out_frames[k].canvas_h = 1920

\* frames rendered with --letterbox 0.51 aligned to the bottom: the
\* rectangle of 551 x 979 ends at the bottom line of the canvas
C38_Witness ==
    /\ args.letterbox = 51
    /\ args.letterbox_align = "bottom"
    /\ Len(out_frames) >= 2
    /\ inner.w = 551 /\ inner.h = 979
    /\ inner.y0 + inner.h = 1920

\* the frame Pass 2 writes to the main output for the decoded frame i: a
\* function of the trajectory and the geometry, not of the debug options
MainFrame(i) ==
    LET c == CropColumns(x_smooth, i, src.W, crop_w)
    IN  [idx |-> i, left |-> c.left, x1 |-> c.x1, x2 |-> c.x2,
         canvas_w |-> TARGET_W, canvas_h |-> TARGET_H]

\* C39: the frames written to the main output are the same whether or not
\* --debug-overlay, --debug-sbs or --export-csv is given: once the main
\* writer is open, the run writes one main frame per decoded frame, each
\* the frame the trajectory gives, as the run without those options does.
C39_MainOutputSame ==
    /\ \A k \in 1..Len(out_frames) : out_frames[k] = MainFrame(k - 1)
    /\ (pc = "exit" /\ writer # "none") =>
          /\ Len(out_frames) >= Len(xcenters_raw)
          /\ Len(out_frames) <= Len(xcenters_raw) + ExtraFrames

\* C39 on the runs in which no CSV operation failed
C39_SameUnlessCsvFails ==
    ~(Logged(Ev("io_error", "csv open")) \/ Logged(Ev("io_error", "csv row")))
        => C39_MainOutputSame

====
